---- MODULE Spec2Model ----
(***************************************************************************)
(* ReleaseDrop: reconciliation of a catalog release against the Plex and   *)
(* Jellyfin media-server libraries (backend/app/services/plex_service.py,  *)
(* backend/app/services/jellyfin_service.py).                              *)
(*                                                                         *)
(* Names (album titles, artist names, track names) are sequences of ASCII  *)
(* character codes.  Similarity ratios are exact fractions <<num, den>> in *)
(* lowest terms: difflib computes 2.0 * matches / length with one          *)
(* correctly rounded division, so for the short names used here the float  *)
(* comparisons of the code agree with the comparisons of the fractions.    *)
(***************************************************************************)
EXTENDS Integers, Sequences, FiniteSets, TLC

(***************************************************************************)
(* Bounds of the model                                                     *)
(***************************************************************************)
MaxLibs == 2        \* music libraries the Plex server reports
MaxAlbums == 2      \* albums in one provider answer
MaxArtists == 1     \* artists in one provider answer
MaxTracks == 2      \* canonical tracks of a release (general inputs)
MaxLibTracks == 2   \* tracks of a library album (general inputs)
MaxStrLen == 3      \* characters of a string handed to _similarity_ratio alone

(***************************************************************************)
(* Strings                                                                 *)
(***************************************************************************)
\* str.lower() on one ASCII character
LowerChar(c) == IF c >= 65 /\ c <= 90 THEN c + 32 ELSE c

\* str.lower()
Lower(s) == [i \in 1..Len(s) |-> LowerChar(s[i])]

\* the string of the first n lower-case letters: "a", "ab", "abc", ...
Abc(n) == [i \in 1..n |-> 96 + i]

\* str.upper() on the names used as inputs
Upper(s) == [i \in 1..Len(s) |-> IF s[i] >= 97 /\ s[i] <= 122 THEN s[i] - 32 ELSE s[i]]

(***************************************************************************)
(* Fractions                                                               *)
(***************************************************************************)
RECURSIVE GCD(_, _)
GCD(m, n) == IF n = 0 THEN m ELSE GCD(n, m % n)

Frac(n, d) == LET g == GCD(n, d) IN <<n \div g, d \div g>>

Zero == <<0, 1>>
One == <<1, 1>>

\* r >= s
GE(r, s) == r[1] * s[2] >= s[1] * r[2]

\* a comparison with >= for >: the last of the best candidates wins
AtLeast(r, s) == r[1] * s[2] >= s[1] * r[2]

\* r > s
GT(r, s) == r[1] * s[2] > s[1] * r[2]

(***************************************************************************)
(* difflib.SequenceMatcher(None, a, b).ratio(), no junk (autojunk only     *)
(* acts on sequences of 200 or more elements)                              *)
(***************************************************************************)
\* length of the common run of a from i and b from j, inside a[..ahi-1], b[..bhi-1]
RECURSIVE RunLen(_, _, _, _, _, _)
RunLen(a, b, i, j, ahi, bhi) ==
    IF i < ahi /\ j < bhi /\ a[i] = b[j]
    THEN 1 + RunLen(a, b, i + 1, j + 1, ahi, bhi)
    ELSE 0

\* find_longest_match: the longest block a[i..i+k-1] = b[j..j+k-1] with
\* alo <= i, i+k <= ahi, blo <= j, j+k <= bhi; of the longest blocks the one
\* starting earliest in a, and of those the one starting earliest in b
FindLongestMatch(a, b, alo, ahi, blo, bhi) ==
    LET Blocks == {<<i, j, RunLen(a, b, i, j, ahi, bhi)>> : i \in alo..(ahi - 1), j \in blo..(bhi - 1)}
        Better(x, y) == \/ x[3] > y[3]
                        \/ x[3] = y[3] /\ x[1] < y[1]
                        \/ x[3] = y[3] /\ x[1] = y[1] /\ x[2] <= y[2]
    IN IF Blocks = {} THEN <<alo, blo, 0>>
       ELSE CHOOSE x \in Blocks : \A y \in Blocks : Better(x, y)

\* get_matching_blocks: total size of the matching blocks
RECURSIVE Matches(_, _, _, _, _, _)
Matches(a, b, alo, ahi, blo, bhi) ==
    IF alo >= ahi \/ blo >= bhi THEN 0
    ELSE LET m == FindLongestMatch(a, b, alo, ahi, blo, bhi)
         IN IF m[3] = 0 THEN 0
            ELSE m[3] + Matches(a, b, alo, m[1], blo, m[2])
                      + Matches(a, b, m[1] + m[3], ahi, m[2] + m[3], bhi)

\* SequenceMatcher.ratio(): 2.0 * matches / length, 1.0 when both are empty
SeqRatio(a, b) ==
    LET length == Len(a) + Len(b)
    IN IF length = 0 THEN One
       ELSE Frac(2 * Matches(a, b, 1, Len(a) + 1, 1, Len(b) + 1), length)

\* the ratio of the strings as given, without lower-casing
SimilarityRatioCaseSensitive(str1, str2) == SeqRatio(str1, str2)

\* _similarity_ratio
SimilarityRatio(str1, str2) == SeqRatio(Lower(str1), Lower(str2))

(***************************************************************************)
(* Thresholds of the code, in hundredths                                   *)
(***************************************************************************)
PlexAlbumThresholdPct == 80       \* plex_service.py: similarity_threshold = 0.80
JellyfinAlbumThresholdPct == 85   \* jellyfin_service.py: similarity_threshold = 0.85
ArtistThresholdPct == 85          \* plex_service.py: best_ratio >= 0.85, ratio >= 0.85
TrackThresholdPct == 90           \* both adapters: _similarity_ratio(...) >= 0.9

Pct(p) == Frac(p, 100)

(***************************************************************************)
(* Optional values: None is the empty sequence, a value x is <<x>>         *)
(***************************************************************************)
Nothing == <<>>
Some(x) == <<x>>

(***************************************************************************)
(* Inputs: the release of the catalog and the answers of the media server  *)
(***************************************************************************)
SeqsUpTo(S, n) == UNION {[1..k -> S] : k \in 0..n}

\* n names, alternately x and y
Cycle(n, x, y) == [i \in 1..n |-> IF i % 2 = 1 THEN x ELSE y]

AlbumNames == {Abc(3)}
ArtistNames == {Abc(3)}

\* album titles of the library: the ratio to "abc" is 1/2, 4/5, 1 (equal
\* ignoring case), 6/7 and 0
TitlePool == {Abc(1), Abc(2), Upper(Abc(3)), Abc(4), <<122>>}

\* artist names of the library: equal ignoring case, ratio 6/7, ratio 4/5
ArtistPool == {Upper(Abc(3)), Abc(4), Abc(2)}

\* track names of the release and of the library: "abcd" equals "ABCD"
\* ignoring case and has ratio 4/5 to "abcdef"; "abcde" has ratio 8/9 to
\* "ABCD" and 10/11 to "abcdef"
CanonPool == {Abc(5), Abc(4)}
LibTrackPool == {Upper(Abc(4)), Abc(6)}

\* Two families of inputs.  "short": every release of up to MaxTracks tracks
\* against albums of up to MaxLibTracks tracks.  "long": releases of 10 and 11
\* tracks against albums of 10 and 12 tracks.
Scenarios == {"short", "long"}

CanonLists(sc) ==
    IF sc = "short" THEN SeqsUpTo(CanonPool, MaxTracks)
    ELSE {Cycle(10, Abc(5), Abc(4)), Cycle(11, Abc(5), Abc(4))}

\* the track lists of library albums (no title twice on a short album)
TrackLists(sc) ==
    IF sc = "short"
    THEN {s \in SeqsUpTo(LibTrackPool, MaxLibTracks) :
             \A i, j \in 1..Len(s) : i # j => s[i] # s[j]}
    ELSE {Cycle(10, Upper(Abc(4)), Abc(6)), Cycle(12, Upper(Abc(4)), Abc(6))}

ArtistLists == SeqsUpTo(ArtistPool, MaxArtists)

\* parentTitle of the albums of the library: the artist asked for, or another
AlbumArtistPool == {Upper(Abc(3)), Abc(2)}

\* the albums of library k as the server lists them; ratingKey <<k, i>> is the
\* i-th album of library k (Jellyfin: Id and Name are ratingKey and title)
AlbumLists(k) ==
    {[i \in 1..Len(s) |-> [ratingKey |-> <<k, i>>, title |-> s[i][1], parentTitle |-> s[i][2]]] :
        s \in SeqsUpTo(TitlePool \X AlbumArtistPool, MaxAlbums)}

\* the sections of GET /library/sections: section i has key i and is a music
\* section ("artist") or not
SectionLists ==
    {[i \in 1..Len(t) |-> <<i, t[i]>>] : t \in SeqsUpTo({"artist", "movie"}, MaxLibs)}

(***************************************************************************)
(* PlexService.get_music_libraries: the keys of the music sections         *)
(***************************************************************************)
RECURSIVE MusicKeys(_)
MusicKeys(sections) ==
    IF sections = <<>> THEN <<>>
    ELSE (IF Head(sections)[2] = "artist" THEN <<Head(sections)[1]>> ELSE <<>>)
             \o MusicKeys(Tail(sections))

\* an operation that forgets "if not self.base_url or not self.token"
GetMusicLibrariesUnguarded(conf, ok, sections) ==
    IF ~ok THEN <<>> ELSE MusicKeys(sections)

GetMusicLibraries(conf, ok, sections) ==
    IF ~conf THEN <<>>
    ELSE IF ~ok THEN <<>>
    ELSE MusicKeys(sections)

(***************************************************************************)
(* PlexService.search_artist_in_library                                    *)
(***************************************************************************)
\* the loop "for artist in artists: if ratio > best_ratio", from position i
RECURSIVE BestArtistScan(_, _, _, _, _)
BestArtistScan(artists, name, i, best_match, best_ratio) ==
    IF i > Len(artists) THEN [match |-> best_match, ratio |-> best_ratio]
    ELSE LET ratio == SimilarityRatio(artists[i], name)
         IN IF GT(ratio, best_ratio)
            THEN BestArtistScan(artists, name, i + 1, Some(artists[i]), ratio)
            ELSE BestArtistScan(artists, name, i + 1, best_match, best_ratio)

SearchArtist(artists, name) ==
    LET exact == SelectSeq(artists, LAMBDA t : Lower(t) = Lower(name))
        best == BestArtistScan(artists, name, 1, Nothing, Zero)
    IN IF exact # <<>> THEN Some(exact[1])
       ELSE IF GE(best.ratio, Pct(ArtistThresholdPct)) THEN best.match
       ELSE Nothing

SearchArtistInLibrary(conf, ok, artists, name) ==
    IF ~conf THEN Nothing
    ELSE IF ~ok THEN Nothing
    ELSE SearchArtist(artists, name)

(***************************************************************************)
(* PlexService.get_artist_albums                                           *)
(***************************************************************************)
ArtistMatches(album, name) ==
    \/ Lower(album.parentTitle) = Lower(name)
    \/ GE(SimilarityRatio(Lower(album.parentTitle), name), Pct(ArtistThresholdPct))

GetArtistAlbums(conf, ok, all_albums, name) ==
    IF ~conf THEN <<>>
    ELSE IF ~ok THEN <<>>
    ELSE SelectSeq(all_albums, LAMBDA al : ArtistMatches(al, name))

(***************************************************************************)
(* get_album_tracks (both adapters): the tracks, [] when unconfigured, on  *)
(* an error of a request and (Jellyfin) when the server has no user        *)
(***************************************************************************)
FetchOutcomes == {"ok", "error"}

GetAlbumTracks(conf, outcome, tracks) ==
    IF ~conf THEN <<>>
    ELSE IF outcome # "ok" THEN <<>>
    ELSE tracks

(***************************************************************************)
(* Album matching of check_album_in_library                                *)
(***************************************************************************)
\* a comparison of the titles that forgets to fold the case
TitleEqualsCaseSensitive(title, album_name) == title = album_name

\* title equality of the exact-match loops
TitleEquals(title, album_name) == Lower(title) = Lower(album_name)

\* Plex: exact_matches, every album of that title
ExactMatches(albums, album_name) ==
    SelectSeq(albums, LAMBDA al : TitleEquals(al.title, album_name))

\* the loop "for album in albums: if ratio > best_ratio", from position i
RECURSIVE BestAlbumScan(_, _, _, _, _)
BestAlbumScan(albums, album_name, i, best_match, best_ratio) ==
    IF i > Len(albums) THEN [match |-> best_match, ratio |-> best_ratio]
    ELSE LET ratio == SimilarityRatio(albums[i].title, album_name)
         IN IF GT(ratio, best_ratio)
            THEN BestAlbumScan(albums, album_name, i + 1, Some(albums[i]), ratio)
            ELSE BestAlbumScan(albums, album_name, i + 1, best_match, best_ratio)

BestAlbum(albums, album_name) == BestAlbumScan(albums, album_name, 1, Nothing, Zero)

\* best_track_diff: float('inf') is Inf, a difference d is <<d>>
Inf == <<>>

Abs(n) == IF n < 0 THEN -n ELSE n

\* a difference that forgets abs()
TrackDiffSigned(album_track_count, spotify_track_count) ==
    album_track_count - spotify_track_count

\* track_diff = abs(album_track_count - spotify_track_count)
TrackDiff(album_track_count, spotify_track_count) ==
    Abs(album_track_count - spotify_track_count)

\* a comparison with <= for <: the last of the closest albums wins
CloserOrEqual(track_diff, best_track_diff) ==
    best_track_diff = Inf \/ track_diff <= best_track_diff[1]

\* if track_diff < best_track_diff
CloserThan(track_diff, best_track_diff) ==
    best_track_diff = Inf \/ track_diff < best_track_diff[1]

(***************************************************************************)
(* Track comparison of check_album_in_library (both adapters)              *)
(***************************************************************************)
\* {track.get("title", "").lower() for track in plex_tracks}
TrackNameSet(tracks) == {Lower(tracks[i]) : i \in 1..Len(tracks)}

\* the orders in which the set of library track names can be iterated
ScanOrders(S) == {o \in [1..Cardinality(S) -> S] : \A x \in S : \E i \in 1..Cardinality(S) : o[i] = x}

\* a scan that breaks after the first library track, found or not
ScanFirstOnly(track_name, order, i) ==
    /\ i <= Len(order)
    /\ GE(SimilarityRatio(track_name, order[i]), Pct(TrackThresholdPct))

\* "for plex_track_name in plex_track_names: if ratio >= 0.9: found; break"
RECURSIVE ScanFound(_, _, _)
ScanFound(track_name, order, i) ==
    IF i > Len(order) THEN FALSE
    ELSE IF GE(SimilarityRatio(track_name, order[i]), Pct(TrackThresholdPct)) THEN TRUE
    ELSE ScanFound(track_name, order, i + 1)

\* a comparison that forgets "found = True": a track found by similarity is
\* appended to both lists
ClassifyFoundForgotten(track_name, names, order) ==
    LET exact == Lower(track_name) \in names
        found == ~exact /\ ScanFound(track_name, order, 1)
    IN [available |-> exact \/ found, missing |-> ~exact]

\* the lists one canonical track is appended to
Classify(track_name, names, order) ==
    LET exact == Lower(track_name) \in names
        found == ~exact /\ ScanFound(track_name, order, 1)
    IN [available |-> exact \/ found, missing |-> ~exact /\ ~found]

\* [track["name"] for track in spotify_tracks]
TrackNames(tracks) == [i \in 1..Len(tracks) |-> tracks[i].name]

\* a comparison that loops over the library tracks: every library track is
\* reported as available
ReconcileLibraryTracks(tracks, names, order) ==
    [available |-> order,
     missing |-> SelectSeq(TrackNames(tracks), LAMBDA n : Classify(n, names, order).missing)]

\* available_tracks and missing_tracks after the loop over spotify_tracks
Reconcile(tracks, names, order) ==
    [available |-> SelectSeq(TrackNames(tracks), LAMBDA n : Classify(n, names, order).available),
     missing |-> SelectSeq(TrackNames(tracks), LAMBDA n : Classify(n, names, order).missing)]

(***************************************************************************)
(* Results of check_album_in_library                                       *)
(***************************************************************************)
\* a not-found result that forgets the canonical tracks
NotFoundNothingMissing(confidence, tracks) ==
    [in_library |-> FALSE,
     match_type |-> "none",
     match_confidence |-> confidence,
     available_tracks |-> <<>>,
     missing_tracks |-> <<>>,
     album_id |-> Nothing]

\* a not-found result that reports full confidence
NotFoundFullConfidence(confidence, tracks) ==
    [in_library |-> FALSE,
     match_type |-> "none",
     match_confidence |-> One,
     available_tracks |-> <<>>,
     missing_tracks |-> TrackNames(tracks),
     album_id |-> Nothing]

NotFoundResult(confidence, tracks) ==
    [in_library |-> FALSE,
     match_type |-> "none",
     match_confidence |-> confidence,
     available_tracks |-> <<>>,
     missing_tracks |-> TrackNames(tracks),
     album_id |-> Nothing]

\* a found result that leaves the album id out
FoundResultNoId(is_exact, confidence, rec, album) ==
    [in_library |-> TRUE,
     match_type |-> IF is_exact THEN "exact" ELSE "similar",
     match_confidence |-> confidence,
     available_tracks |-> rec.available,
     missing_tracks |-> rec.missing,
     album_id |-> Nothing,
     album_name |-> album.title]

FoundResult(is_exact, confidence, rec, album) ==
    [in_library |-> TRUE,
     match_type |-> IF is_exact THEN "exact" ELSE "similar",
     match_confidence |-> confidence,
     available_tracks |-> rec.available,
     missing_tracks |-> rec.missing,
     album_id |-> Some(album.ratingKey),
     album_name |-> album.title]

\* a confidence that forgets the exact match and reports the ratio
MatchConfidenceRatioOnly(is_exact_match, has_ratio, ratio) ==
    IF has_ratio THEN ratio ELSE One

\* match_confidence = 1.0 if is_exact_match else best_ratio if 'best_ratio'
\* in locals() else 1.0 (Jellyfin: 1.0 if exact_match else best_ratio)
MatchConfidence(is_exact_match, has_ratio, ratio) ==
    IF is_exact_match THEN One
    ELSE IF has_ratio THEN ratio
    ELSE One

\* no result yet
Pending ==
    [in_library |-> FALSE, match_type |-> "pending", match_confidence |-> Zero,
     available_tracks |-> <<>>, missing_tracks |-> <<>>, album_id |-> Nothing]

(***************************************************************************)
(* State of one call of check_album_in_library                             *)
(***************************************************************************)
VARIABLES
    scenario,         \* the family of inputs
    adapter,          \* "plex" or "jellyfin"
    configured,       \* base URL and token / API key are set
    album_name, artist_name, spotify_tracks,   \* the arguments
    pc,               \* the await the call has reached
    music_libraries,  \* Plex: keys of the music libraries
    lib,              \* Plex: position of the loop in music_libraries
    artist,           \* Plex: the artist found in the library, if any
    albums,           \* albums (Plex) / jellyfin_albums
    exact_matches,    \* exact_matches (Plex) / exact_match as an optional (Jellyfin)
    dup_i,            \* Plex: position of the loop over exact_matches
    best_album, best_track_diff,               \* Plex: the duplicate loop
    dup_counts,       \* Plex: album_track_count of the albums of the duplicate loop
    matched_album,    \* the matched album, if any
    best_ratio, has_best_ratio,                \* best_ratio, and whether it is bound
    lib_tracks,       \* plex_tracks / jf_tracks
    result,           \* the returned dictionary
    requests,         \* the HTTP requests made: operation and library key
    served,           \* the tracks the server holds for the album keys asked so far
    max_seen,         \* greatest album-title ratio among the albums examined
    examined,         \* some library has answered with albums of the artist
    str1, str2,       \* the arguments of a call of _similarity_ratio alone
    ratios,           \* what that call returns for (str1, str2) and for (str2, str1)
    world,            \* concurrent calls: what the Plex server holds
    calls,            \* concurrent calls: arguments, position and result of each call
    frames,           \* concurrent calls: the locals of each call
    services,         \* the notification services that are configured
    db,               \* the committed rows of the tables artists and releases
    job,              \* the run of check_for_new_releases and its session
    clock,            \* the runs started so far: datetime.utcnow() of a run
    exam,             \* the last catalog answer examined and what was notified of it
    sent,             \* how often each release went to each service in completed runs
    before,           \* the committed rows when the run of the job began, while no
                      \* other handler has committed since
    sweep,            \* the run of a check-all sweep and its session
    response,         \* what the last completed check-all sweep returned
    servers           \* what Plex and Jellyfin hold of each release

inputs == <<scenario, adapter, configured, album_name, artist_name, spotify_tracks>>

operands == <<str1, str2, ratios>>

concurrent == <<world, calls, frames>>

database == <<services, db, job, clock, exam, sent, before, sweep, response, servers>>

vars == <<scenario, adapter, configured, album_name, artist_name, spotify_tracks, pc,
          music_libraries, lib, artist, albums, exact_matches, dup_i, best_album,
          best_track_diff, dup_counts, matched_album, best_ratio, has_best_ratio,
          lib_tracks, result, requests, served, max_seen, examined, str1, str2, ratios,
          world, calls, frames, services, db, job, clock, exam, sent, before,
          sweep, response, servers>>

\* no concurrent calls are in flight
NoCalls ==
    /\ world = <<>>
    /\ calls = <<>>
    /\ frames = <<>>

\* no database is attached
NoDatabase ==
    /\ services = {}
    /\ db = <<>>
    /\ job = <<>>
    /\ clock = 0
    /\ exam = <<>>
    /\ sent = <<>>
    /\ before = <<>>
    /\ sweep = <<>>
    /\ response = <<>>
    /\ servers = <<>>

Init ==
    /\ scenario \in Scenarios
    /\ adapter \in {"plex", "jellyfin"}
    /\ configured \in BOOLEAN
    /\ album_name \in AlbumNames
    /\ artist_name \in ArtistNames
    /\ spotify_tracks \in {[i \in 1..Len(l) |-> [name |-> l[i]]] : l \in CanonLists(scenario)}
    /\ pc = "start"
    /\ music_libraries = <<>>
    /\ lib = 0
    /\ artist = Nothing
    /\ albums = <<>>
    /\ exact_matches = <<>>
    /\ dup_i = 0
    /\ best_album = Nothing
    /\ best_track_diff = Inf
    /\ dup_counts = <<>>
    /\ matched_album = Nothing
    /\ best_ratio = Zero
    /\ has_best_ratio = FALSE
    /\ lib_tracks = <<>>
    /\ result = Pending
    /\ requests = <<>>
    /\ served = <<>>
    /\ max_seen = Zero
    /\ examined = FALSE
    /\ str1 = <<>>
    /\ str2 = <<>>
    /\ ratios = Nothing
    /\ NoCalls
    /\ NoDatabase

\* the request is recorded, with whether it was answered, when the provider
\* is configured (otherwise the operation returns before any request)
Requested(op, key, ok) ==
    IF configured THEN Append(requests, [op |-> op, lib |-> key, ok |-> ok]) ELSE requests

\* a loop over the libraries in reverse order
LibraryAtReversed(libs, i) == libs[Len(libs) + 1 - i]

\* the library the loop examines at position i
LibraryAt(libs, i) == libs[i]

\* greatest album-title ratio of a list of albums, 0.0 for no album
MaxRatio(als, name) ==
    IF als = <<>> THEN Zero
    ELSE LET R == {SimilarityRatio(als[i].title, name) : i \in 1..Len(als)}
         IN CHOOSE r \in R : \A q \in R : GE(r, q)

MaxOf(r, q) == IF GE(r, q) THEN r ELSE q

\* the track list the server holds for an album key: fixed by the first answer
Holdings(key) ==
    IF key \in DOMAIN served THEN {served[key]} ELSE TrackLists(scenario)

\* served, after the answer to a request for the tracks of key
Served(key, answered, held) ==
    IF answered THEN (key :> held) @@ served ELSE served

\* the answers to a request for the tracks of key: the outcome and, when the
\* server answers, the tracks it holds
TrackAnswers(key, outcomes) ==
    {<<o, h>> : o \in outcomes \ {"ok"}, h \in {<<>>}} \cup
    {<<o, h>> : o \in outcomes \cap {"ok"}, h \in Holdings(key)}

(***************************************************************************)
(* PlexService.check_album_in_library, one action per awaited request      *)
(***************************************************************************)
\* a loop that ends without the return after it: the call yields no result
PlexNextLibraryNoReturn ==
    IF lib < Len(music_libraries)
    THEN /\ lib' = lib + 1
         /\ pc' = "artist"
         /\ result' = result
    ELSE /\ lib' = lib
         /\ pc' = "exhausted"
         /\ result' = result

\* "continue": the next library, or the not-found result after the loop
PlexNextLibrary ==
    IF lib < Len(music_libraries)
    THEN /\ lib' = lib + 1
         /\ pc' = "artist"
         /\ result' = result
    ELSE /\ lib' = lib
         /\ pc' = "done"
         /\ result' = NotFoundResult(Zero, spotify_tracks)

\* The locals artist, albums, exact_matches and best_ratio of an iteration are
\* assigned in the next iteration before they are read: the model clears them
\* when the loop moves on (has_best_ratio, the binding of best_ratio, stays).
\* artist is read only by the test that follows the search: it is cleared as
\* well once the albums have been matched.
ClearedOnContinue(value, cleared) ==
    IF lib < Len(music_libraries) THEN cleared ELSE value

\* music_libraries = await self.get_music_libraries()
PlexGetMusicLibraries ==
    /\ adapter = "plex"
    /\ pc = "start"
    /\ \E sections \in SectionLists, ok \in BOOLEAN :
          LET libs == GetMusicLibraries(configured, ok, sections)
          IN /\ music_libraries' = libs
             /\ requests' = Requested("libraries", 0, ok)
             /\ IF libs = <<>>
                THEN /\ pc' = "done"
                     /\ result' = NotFoundResult(Zero, spotify_tracks)
                     /\ lib' = lib
                ELSE /\ pc' = "artist"
                     /\ result' = result
                     /\ lib' = 1
    /\ UNCHANGED <<operands, concurrent, database, inputs, artist, albums, exact_matches, dup_i, best_album,
                   best_track_diff, dup_counts, matched_album, best_ratio,
                   has_best_ratio, lib_tracks, served, max_seen, examined>>

\* artist = await self.search_artist_in_library(library["key"], artist_name)
PlexSearchArtist ==
    /\ adapter = "plex"
    /\ pc = "artist"
    /\ \E artists \in ArtistLists, ok \in BOOLEAN :
          LET found == SearchArtistInLibrary(configured, ok, artists, artist_name)
          IN /\ artist' = found
             /\ requests' = Requested("artist", LibraryAt(music_libraries, lib), ok)
             /\ IF found = Nothing
                THEN PlexNextLibrary
                ELSE pc' = "albums" /\ UNCHANGED <<lib, result>>
    /\ UNCHANGED <<operands, concurrent, database, inputs, music_libraries, albums, exact_matches, dup_i, best_album,
                   best_track_diff, dup_counts, matched_album, best_ratio,
                   has_best_ratio, lib_tracks, served, max_seen, examined>>

\* albums = await self.get_artist_albums(library["key"], artist_name), and
\* the matching up to the next request
PlexGetArtistAlbums ==
    /\ adapter = "plex"
    /\ pc = "albums"
    /\ \E all_albums \in AlbumLists(LibraryAt(music_libraries, lib)), ok \in BOOLEAN :
          LET als == GetArtistAlbums(configured, ok, all_albums, artist_name)
              exact == ExactMatches(als, album_name)
              best == BestAlbum(als, album_name)
              similar == IF GE(best.ratio, Pct(PlexAlbumThresholdPct)) THEN best.match ELSE Nothing
              matched == IF Len(exact) = 1 THEN Some(exact[1])
                         ELSE IF Len(exact) > 1 THEN Nothing
                         ELSE similar
              continue == als = <<>> \/ (exact = <<>> /\ similar = Nothing)
          IN /\ requests' = Requested("albums", LibraryAt(music_libraries, lib), ok)
             /\ max_seen' = MaxOf(max_seen, MaxRatio(als, album_name))
             /\ examined' = (examined \/ als # <<>>)
             /\ has_best_ratio' = (has_best_ratio \/ (als # <<>> /\ exact = <<>>))
             /\ matched_album' = IF als = <<>> THEN matched_album ELSE matched
             /\ IF continue
                THEN /\ albums' = ClearedOnContinue(als, <<>>)
                     /\ artist' = ClearedOnContinue(artist, Nothing)
                     /\ exact_matches' = ClearedOnContinue(
                                             IF als = <<>> THEN exact_matches ELSE exact, <<>>)
                     /\ best_ratio' = ClearedOnContinue(
                                          IF als = <<>> THEN best_ratio ELSE best.ratio, Zero)
                ELSE /\ albums' = als
                     /\ artist' = Nothing
                     /\ exact_matches' = exact
                     /\ best_ratio' = IF exact = <<>> THEN best.ratio ELSE best_ratio
             /\ dup_i' = IF Len(exact) > 1 THEN 1 ELSE dup_i
             /\ best_album' = IF Len(exact) > 1 THEN Nothing ELSE best_album
             /\ best_track_diff' = IF Len(exact) > 1 THEN Inf ELSE best_track_diff
             /\ dup_counts' = IF Len(exact) > 1 THEN <<>> ELSE dup_counts
             /\ IF continue
                THEN PlexNextLibrary
                ELSE /\ pc' = IF Len(exact) > 1 THEN "dup" ELSE "tracks"
                     /\ UNCHANGED <<lib, result>>
    /\ UNCHANGED <<operands, concurrent, database, inputs, music_libraries, lib_tracks, served>>

\* album_tracks = await self.get_album_tracks(album.get("key")) in the loop
\* over exact_matches
PlexFetchDuplicate ==
    /\ adapter = "plex"
    /\ pc = "dup"
    /\ LET album == exact_matches[dup_i]
       IN \E answer \in TrackAnswers(album.ratingKey, FetchOutcomes) :
             LET outcome == answer[1]
                 held == answer[2]
                 album_tracks == GetAlbumTracks(configured, outcome, held)
                 album_track_count == Len(album_tracks)
                 track_diff == TrackDiff(album_track_count, Len(spotify_tracks))
                 closer == CloserThan(track_diff, best_track_diff)
                 best == IF closer THEN Some(album) ELSE best_album
             IN /\ served' = Served(album.ratingKey, outcome = "ok", held)
                /\ requests' = Requested("tracks", album.ratingKey[1], outcome = "ok")
                /\ best_album' = best
                /\ best_track_diff' = IF closer THEN <<track_diff>> ELSE best_track_diff
                /\ dup_counts' = Append(dup_counts, album_track_count)
                /\ IF dup_i < Len(exact_matches)
                   THEN /\ dup_i' = dup_i + 1
                        /\ pc' = "dup"
                        /\ matched_album' = matched_album
                   ELSE /\ dup_i' = dup_i
                        /\ pc' = "recount"
                        /\ matched_album' = best
    /\ UNCHANGED <<operands, concurrent, database, inputs, music_libraries, lib, artist, albums, exact_matches,
                   best_ratio, has_best_ratio, lib_tracks, result, max_seen, examined>>

\* actual_count = len(await self.get_album_tracks(matched_album.get("key")))
PlexRecount ==
    /\ adapter = "plex"
    /\ pc = "recount"
    /\ \E outcome \in FetchOutcomes :
          requests' = Requested("tracks", matched_album[1].ratingKey[1], outcome = "ok")
    /\ pc' = "tracks"
    /\ UNCHANGED <<operands, concurrent, database, inputs, music_libraries, lib, artist, albums, exact_matches, dup_i,
                   best_album, best_track_diff, dup_counts, matched_album, best_ratio,
                   has_best_ratio, lib_tracks, result, served, max_seen, examined>>

\* plex_tracks = await self.get_album_tracks(matched_album.get("key")), the
\* comparison of the tracks and the return
PlexReconcile ==
    /\ adapter = "plex"
    /\ pc = "tracks"
    /\ LET album == matched_album[1]
       IN \E answer \in TrackAnswers(album.ratingKey, FetchOutcomes) :
             LET outcome == answer[1]
                 held == answer[2]
                 plex_tracks == GetAlbumTracks(configured, outcome, held)
                 names == TrackNameSet(plex_tracks)
                 is_exact_match == Len(exact_matches) > 0
                 match_confidence == MatchConfidence(is_exact_match, has_best_ratio, best_ratio)
             IN \E order \in ScanOrders(names) :
                   /\ served' = Served(album.ratingKey, outcome = "ok", held)
                   /\ requests' = Requested("tracks", album.ratingKey[1], outcome = "ok")
                   /\ lib_tracks' = plex_tracks
                   /\ result' = FoundResult(is_exact_match, match_confidence,
                                            Reconcile(spotify_tracks, names, order), album)
                   /\ pc' = "done"
    /\ UNCHANGED <<operands, concurrent, database, inputs, music_libraries, lib, artist, albums, exact_matches, dup_i,
                   best_album, best_track_diff, dup_counts, matched_album, best_ratio,
                   has_best_ratio, max_seen, examined>>

(***************************************************************************)
(* JellyfinService                                                         *)
(***************************************************************************)
\* the outcomes of the three requests of get_artist_items
ItemsOutcomes == {"ok", "users_error", "no_users", "search_error", "albums_error"}

\* the albums the server lists for an artist
JellyfinAlbumLists(name) ==
    {[i \in 1..Len(s) |-> [ratingKey |-> <<0, i>>, title |-> s[i], parentTitle |-> name]] :
        s \in SeqsUpTo(TitlePool, MaxAlbums)}

\* get_artist_items: the albums of the first artist of the search
GetArtistItems(conf, outcome, artists, artist_albums) ==
    IF ~conf THEN <<>>
    ELSE IF outcome \in {"users_error", "no_users", "search_error"} THEN <<>>
    ELSE IF artists = <<>> THEN <<>>
    ELSE IF outcome = "albums_error" THEN <<>>
    ELSE artist_albums

\* the requests get_artist_items makes
ItemsRequests(conf, outcome, artists) ==
    LET users == [op |-> "users", lib |-> 0, ok |-> outcome # "users_error"]
        search == [op |-> "artist", lib |-> 0, ok |-> outcome # "search_error"]
        items == [op |-> "albums", lib |-> 0, ok |-> outcome # "albums_error"]
    IN IF ~conf THEN <<>>
       ELSE IF outcome \in {"users_error", "no_users"} THEN <<users>>
       ELSE IF outcome = "search_error" \/ artists = <<>> THEN <<users, search>>
       ELSE <<users, search, items>>

\* exact_match: the first album of that title
FirstExact(als, name) ==
    LET exact == SelectSeq(als, LAMBDA al : TitleEquals(al.title, name))
    IN IF exact = <<>> THEN Nothing ELSE Some(exact[1])

\* the track lists the server holds for the albums of the target title, when
\* there are several of them: they exist on the server whether or not the
\* adapter asks for them
DuplicateHoldings(als, name) ==
    LET keys == {als[i].ratingKey : i \in {j \in 1..Len(als) : Lower(als[j].title) = Lower(name)}}
    IN IF Cardinality(keys) > 1 THEN [keys -> TrackLists(scenario)] ELSE {served}

\* jellyfin_albums = await self.get_artist_items(artist_name), and the
\* matching up to the next request
JellyfinGetArtistItems ==
    /\ adapter = "jellyfin"
    /\ pc = "start"
    /\ \E outcome \in ItemsOutcomes, artists \in ArtistLists :
          \E artist_albums \in (IF artists = <<>> THEN {<<>>} ELSE JellyfinAlbumLists(artists[1])) :
             LET als == GetArtistItems(configured, outcome, artists, artist_albums)
                 exact_match == FirstExact(als, album_name)
                 best == IF exact_match = Nothing THEN BestAlbum(als, album_name)
                         ELSE [match |-> Nothing, ratio |-> Zero]
                 matched == IF exact_match # Nothing THEN exact_match
                            ELSE IF GE(best.ratio, Pct(JellyfinAlbumThresholdPct)) THEN best.match
                            ELSE Nothing
             IN /\ requests' = requests \o ItemsRequests(configured, outcome, artists)
                /\ served' \in DuplicateHoldings(als, album_name)
                /\ artist' = IF als = <<>> THEN Nothing ELSE Some(artists[1])
                /\ albums' = als
                /\ max_seen' = MaxOf(max_seen, MaxRatio(als, album_name))
                /\ examined' = (examined \/ als # <<>>)
                /\ IF als = <<>>
                   THEN /\ result' = NotFoundResult(Zero, spotify_tracks)
                        /\ pc' = "done"
                        /\ UNCHANGED <<exact_matches, best_ratio, has_best_ratio, matched_album>>
                   ELSE /\ exact_matches' = exact_match
                        /\ best_ratio' = best.ratio
                        /\ has_best_ratio' = TRUE
                        /\ matched_album' = matched
                        /\ IF matched = Nothing
                           THEN /\ result' = NotFoundResult(best.ratio, spotify_tracks)
                                /\ pc' = "done"
                           ELSE /\ result' = result
                                /\ pc' = "tracks"
    /\ UNCHANGED <<operands, concurrent, database, inputs, music_libraries, lib, dup_i, best_album, best_track_diff,
                   dup_counts, lib_tracks>>

\* the outcomes of the two requests of JellyfinService.get_album_tracks
JellyfinFetchOutcomes == {"ok", "users_error", "no_users", "error"}

\* the requests JellyfinService.get_album_tracks makes
TracksRequests(conf, outcome) ==
    LET users == [op |-> "users", lib |-> 0, ok |-> outcome # "users_error"]
        items == [op |-> "tracks", lib |-> 0, ok |-> outcome # "error"]
    IN IF ~conf THEN <<>>
       ELSE IF outcome \in {"users_error", "no_users"} THEN <<users>>
       ELSE <<users, items>>

\* jf_tracks = await self.get_album_tracks(matched_album["Id"]), the
\* comparison of the tracks and the return
JellyfinReconcile ==
    /\ adapter = "jellyfin"
    /\ pc = "tracks"
    /\ LET album == matched_album[1]
       IN \E answer \in TrackAnswers(album.ratingKey, JellyfinFetchOutcomes) :
             LET outcome == answer[1]
                 held == answer[2]
                 jf_tracks == GetAlbumTracks(configured, outcome, held)
                 names == TrackNameSet(jf_tracks)
             IN \E order \in ScanOrders(names) :
                   /\ served' = Served(album.ratingKey, outcome = "ok", held)
                   /\ requests' = requests \o TracksRequests(configured, outcome)
                   /\ lib_tracks' = jf_tracks
                   /\ result' = FoundResult(exact_matches # Nothing,
                                            MatchConfidence(exact_matches # Nothing, TRUE, best_ratio),
                                            Reconcile(spotify_tracks, names, order), album)
                   /\ pc' = "done"
    /\ UNCHANGED <<operands, concurrent, database, inputs, music_libraries, lib, artist, albums, exact_matches, dup_i,
                   best_album, best_track_diff, dup_counts, matched_album, best_ratio,
                   has_best_ratio, max_seen, examined>>

Next ==
    \/ PlexGetMusicLibraries
    \/ PlexSearchArtist
    \/ PlexGetArtistAlbums
    \/ PlexFetchDuplicate
    \/ PlexRecount
    \/ PlexReconcile
    \/ JellyfinGetArtistItems
    \/ JellyfinReconcile

Spec == Init /\ [][Next]_vars

(***************************************************************************)
(* _similarity_ratio called alone, on every pair of short strings           *)
(***************************************************************************)
Alphabet == {97, 98, 99, 65}

Strings == SeqsUpTo(Alphabet, MaxStrLen)

SimInit ==
    /\ str1 \in Strings
    /\ str2 \in Strings
    /\ ratios = Nothing
    /\ scenario = "short"
    /\ adapter = "plex"
    /\ configured = FALSE
    /\ album_name = <<>>
    /\ artist_name = <<>>
    /\ spotify_tracks = <<>>
    /\ pc = "idle"
    /\ music_libraries = <<>>
    /\ lib = 0
    /\ artist = Nothing
    /\ albums = <<>>
    /\ exact_matches = <<>>
    /\ dup_i = 0
    /\ best_album = Nothing
    /\ best_track_diff = Inf
    /\ dup_counts = <<>>
    /\ matched_album = Nothing
    /\ best_ratio = Zero
    /\ has_best_ratio = FALSE
    /\ lib_tracks = <<>>
    /\ result = Pending
    /\ requests = <<>>
    /\ served = <<>>
    /\ max_seen = Zero
    /\ examined = FALSE
    /\ NoCalls
    /\ NoDatabase

\* self._similarity_ratio(str1, str2) and self._similarity_ratio(str2, str1)
CallSimilarityRatio ==
    /\ pc = "idle"
    /\ ratios = Nothing
    /\ ratios' = Some(<<SimilarityRatio(str1, str2), SimilarityRatio(str2, str1)>>)
    /\ UNCHANGED <<str1, str2, concurrent, database, inputs, pc, music_libraries, lib, artist, albums,
                   exact_matches, dup_i, best_album, best_track_diff, dup_counts,
                   matched_album, best_ratio, has_best_ratio, lib_tracks, result,
                   requests, served, max_seen, examined>>

SimNext == CallSimilarityRatio

SimSpec == SimInit /\ [][SimNext]_vars

\* Every request is awaited under httpx.AsyncClient(timeout=30.0): it is
\* answered or it raises within the timeout, and the event loop resumes the
\* call, so a step that is possible is eventually taken.
FairSpec == Spec /\ WF_vars(Next)

(***************************************************************************)
(* Concurrent calls of PlexService.check_album_in_library.  Each route     *)
(* builds its own PlexService(); __init__ only copies the settings, the    *)
(* methods assign no attribute of self, and everything fetched is held in  *)
(* locals of the coroutine.  The awaits are the points where the event     *)
(* loop may run another call.                                              *)
(***************************************************************************)
Calls == {1, 2}

\* the releases the two calls reconcile
Release(call) ==
    IF call = 1
    THEN [album_name |-> Abc(3), artist_name |-> Abc(3),
          spotify_tracks |-> <<[name |-> Abc(5)]>>]
    ELSE [album_name |-> Abc(4), artist_name |-> Abc(3),
          spotify_tracks |-> <<[name |-> Abc(4)], [name |-> Abc(5)]>>]

\* the albums of library k as the server lists them for the concurrent calls
SharedAlbumLists(k) ==
    {[i \in 1..Len(s) |-> [ratingKey |-> <<k, i>>, title |-> s[i], parentTitle |-> Upper(Abc(3))]] :
        s \in SeqsUpTo({Upper(Abc(3)), Abc(4)}, MaxAlbums)}

\* what the server holds: two music sections, the artists and albums of each
\* and the tracks of each album
Worlds ==
    {[sections |-> <<<<1, "artist">>, <<2, "artist">>>>,
      artists |-> (1 :> a1) @@ (2 :> <<Upper(Abc(3))>>),
      albums |-> (1 :> l1) @@ (2 :> l2),
      tracks |-> [key \in {<<k, i>> : k \in 1..2, i \in 1..MaxAlbums} |->
                     IF key[2] = first THEN <<Upper(Abc(4))>> ELSE <<Upper(Abc(4)), Abc(6)>>]] :
        a1 \in {<<>>, <<Upper(Abc(3))>>},
        l1 \in SharedAlbumLists(1),
        l2 \in {l \in SharedAlbumLists(2) : Len(l) = MaxAlbums /\ l[1].title # l[2].title},
        first \in 1..2}

\* the locals of a call before its first statement
NewFrame ==
    [music_libraries |-> <<>>, lib |-> 0, artist |-> Nothing, albums |-> <<>>,
     exact_matches |-> <<>>, dup_i |-> 0, best_album |-> Nothing, best_track_diff |-> Inf,
     matched_album |-> Nothing, best_ratio |-> Zero, has_best_ratio |-> FALSE]

\* locals kept in one place for all calls, as attributes of a shared object
\* would be
SlotShared(call) == 1

\* the locals of a call are its own
Slot(call) == call

\* the position, locals and result of a call after a step
Outcome(p, f, r) == [pc |-> p, frame |-> f, result |-> r]

\* an exception of the interpreter (a subscript of None, an index out of range)
Raised(f) == Outcome("raised", f, Pending)

\* "continue", or the return after the loop over the libraries
FrameNextLibrary(rel, f) ==
    IF f.lib < Len(f.music_libraries)
    THEN Outcome("artist", [f EXCEPT !.lib = @ + 1], Pending)
    ELSE Outcome("done", f, NotFoundResult(Zero, rel.spotify_tracks))

\* music_libraries = await self.get_music_libraries()
StepGetMusicLibraries(w, rel, f) ==
    LET libs == GetMusicLibraries(TRUE, TRUE, w.sections)
        f1 == [f EXCEPT !.music_libraries = libs, !.lib = 0]
    IN FrameNextLibrary(rel, f1)

\* artist = await self.search_artist_in_library(library["key"], artist_name)
StepSearchArtist(w, rel, f) ==
    IF f.lib \notin 1..Len(f.music_libraries) THEN Raised(f)
    ELSE LET key == LibraryAt(f.music_libraries, f.lib)
             found == SearchArtistInLibrary(TRUE, TRUE, w.artists[key], rel.artist_name)
             f1 == [f EXCEPT !.artist = found]
         IN IF found = Nothing THEN FrameNextLibrary(rel, f1)
            ELSE Outcome("albums", f1, Pending)

\* albums = await self.get_artist_albums(library["key"], artist_name), and
\* the matching up to the next request
StepGetArtistAlbums(w, rel, f) ==
    IF f.lib \notin 1..Len(f.music_libraries) THEN Raised(f)
    ELSE LET key == LibraryAt(f.music_libraries, f.lib)
             als == GetArtistAlbums(TRUE, TRUE, w.albums[key], rel.artist_name)
             exact == ExactMatches(als, rel.album_name)
             best == BestAlbum(als, rel.album_name)
             similar == IF GE(best.ratio, Pct(PlexAlbumThresholdPct)) THEN best.match ELSE Nothing
             matched == IF Len(exact) = 1 THEN Some(exact[1])
                        ELSE IF Len(exact) > 1 THEN Nothing
                        ELSE similar
             f1 == IF als = <<>> THEN [f EXCEPT !.albums = als]
                   ELSE [f EXCEPT !.albums = als,
                                  !.exact_matches = exact,
                                  !.matched_album = matched,
                                  !.best_ratio = IF exact = <<>> THEN best.ratio ELSE @,
                                  !.has_best_ratio = @ \/ exact = <<>>,
                                  !.dup_i = IF Len(exact) > 1 THEN 1 ELSE @,
                                  !.best_album = IF Len(exact) > 1 THEN Nothing ELSE @,
                                  !.best_track_diff = IF Len(exact) > 1 THEN Inf ELSE @]
         IN IF als = <<>> \/ (exact = <<>> /\ similar = Nothing) THEN FrameNextLibrary(rel, f1)
            ELSE IF Len(exact) > 1 THEN Outcome("dup", f1, Pending)
            ELSE Outcome("tracks", f1, Pending)

\* album_tracks = await self.get_album_tracks(album.get("key")) in the loop
\* over exact_matches
StepFetchDuplicate(w, rel, f) ==
    IF f.dup_i \notin 1..Len(f.exact_matches) THEN Raised(f)
    ELSE LET album == f.exact_matches[f.dup_i]
             album_tracks == GetAlbumTracks(TRUE, "ok", w.tracks[album.ratingKey])
             track_diff == TrackDiff(Len(album_tracks), Len(rel.spotify_tracks))
             closer == CloserThan(track_diff, f.best_track_diff)
             best == IF closer THEN Some(album) ELSE f.best_album
             f1 == [f EXCEPT !.best_album = best,
                             !.best_track_diff = IF closer THEN <<track_diff>> ELSE @]
         IN IF f.dup_i < Len(f.exact_matches)
            THEN Outcome("dup", [f1 EXCEPT !.dup_i = @ + 1], Pending)
            ELSE Outcome("recount", [f1 EXCEPT !.matched_album = best], Pending)

\* actual_count = len(await self.get_album_tracks(matched_album.get("key")))
StepRecount(w, rel, f) ==
    IF f.matched_album = Nothing THEN Raised(f)
    ELSE Outcome("tracks", f, Pending)

\* plex_tracks = await self.get_album_tracks(matched_album.get("key")), the
\* comparison of the tracks and the return
StepReconcile(w, rel, f) ==
    IF f.matched_album = Nothing THEN Raised(f)
    ELSE LET album == f.matched_album[1]
             plex_tracks == GetAlbumTracks(TRUE, "ok", w.tracks[album.ratingKey])
             names == TrackNameSet(plex_tracks)
             order == CHOOSE o \in ScanOrders(names) : TRUE
             is_exact_match == Len(f.exact_matches) > 0
             match_confidence == MatchConfidence(is_exact_match, f.has_best_ratio, f.best_ratio)
         IN Outcome("done", f, FoundResult(is_exact_match, match_confidence,
                                           Reconcile(rel.spotify_tracks, names, order), album))

\* the step of a call at position p
Step(w, rel, p, f) ==
    CASE p = "start" -> StepGetMusicLibraries(w, rel, f)
      [] p = "artist" -> StepSearchArtist(w, rel, f)
      [] p = "albums" -> StepGetArtistAlbums(w, rel, f)
      [] p = "dup" -> StepFetchDuplicate(w, rel, f)
      [] p = "recount" -> StepRecount(w, rel, f)
      [] p = "tracks" -> StepReconcile(w, rel, f)

\* the call run from position p to its return with no other call in between
RECURSIVE RunFrom(_, _, _)
RunFrom(w, rel, o) ==
    IF o.pc \in {"done", "raised"} THEN o
    ELSE RunFrom(w, rel, Step(w, rel, o.pc, o.frame))

\* what check_album_in_library returns when it runs alone against w
RunAlone(w, rel) == RunFrom(w, rel, Outcome("start", NewFrame, Pending)).result

ConcInit ==
    /\ world \in Worlds
    /\ calls = [c \in Calls |-> [pc |-> "start", result |-> Pending]]
    /\ frames = [c \in Calls |-> NewFrame]
    /\ NoDatabase
    /\ str1 = <<>>
    /\ str2 = <<>>
    /\ ratios = Nothing
    /\ scenario = "short"
    /\ adapter = "plex"
    /\ configured = TRUE
    /\ album_name = <<>>
    /\ artist_name = <<>>
    /\ spotify_tracks = <<>>
    /\ pc = "idle"
    /\ music_libraries = <<>>
    /\ lib = 0
    /\ artist = Nothing
    /\ albums = <<>>
    /\ exact_matches = <<>>
    /\ dup_i = 0
    /\ best_album = Nothing
    /\ best_track_diff = Inf
    /\ dup_counts = <<>>
    /\ matched_album = Nothing
    /\ best_ratio = Zero
    /\ has_best_ratio = FALSE
    /\ lib_tracks = <<>>
    /\ result = Pending
    /\ requests = <<>>
    /\ served = <<>>
    /\ max_seen = Zero
    /\ examined = FALSE

\* the event loop resumes call c at the await it has reached: o is the
\* outcome of the step
Resume(c, o) ==
    /\ calls' = [calls EXCEPT ![c] = [pc |-> o.pc, result |-> o.result]]
    /\ frames' = [frames EXCEPT ![Slot(c)] = o.frame]
    /\ UNCHANGED <<world, operands, database, inputs, pc, music_libraries, lib, artist, albums,
                   exact_matches, dup_i, best_album, best_track_diff, dup_counts,
                   matched_album, best_ratio, has_best_ratio, lib_tracks, result,
                   requests, served, max_seen, examined>>

CallGetMusicLibraries ==
    \E c \in Calls :
        /\ calls[c].pc = "start"
        /\ Resume(c, StepGetMusicLibraries(world, Release(c), frames[Slot(c)]))

CallSearchArtist ==
    \E c \in Calls :
        /\ calls[c].pc = "artist"
        /\ Resume(c, StepSearchArtist(world, Release(c), frames[Slot(c)]))

CallGetArtistAlbums ==
    \E c \in Calls :
        /\ calls[c].pc = "albums"
        /\ Resume(c, StepGetArtistAlbums(world, Release(c), frames[Slot(c)]))

CallFetchDuplicate ==
    \E c \in Calls :
        /\ calls[c].pc = "dup"
        /\ Resume(c, StepFetchDuplicate(world, Release(c), frames[Slot(c)]))

CallRecount ==
    \E c \in Calls :
        /\ calls[c].pc = "recount"
        /\ Resume(c, StepRecount(world, Release(c), frames[Slot(c)]))

CallReconcile ==
    \E c \in Calls :
        /\ calls[c].pc = "tracks"
        /\ Resume(c, StepReconcile(world, Release(c), frames[Slot(c)]))

ConcNext ==
    \/ CallGetMusicLibraries
    \/ CallSearchArtist
    \/ CallGetArtistAlbums
    \/ CallFetchDuplicate
    \/ CallRecount
    \/ CallReconcile

ConcSpec == ConcInit /\ [][ConcNext]_vars

(***************************************************************************)
(* The database and the handlers that write it.  A session holds what it   *)
(* has added or changed until commit; flush makes its rows visible to its  *)
(* own queries; rollback and close drop them.  The database is SQLite      *)
(* (config.py: database_url): a session that has flushed holds the write   *)
(* lock until it commits or rolls back, and a write of another session     *)
(* fails meanwhile and leaves nothing behind.                              *)
(***************************************************************************)
MaxFollowed == 2    \* followed artists
MaxReleases == 2    \* releases of the catalog
MaxCatalog == 2     \* releases in one answer of the catalog
MaxRuns == 2        \* daily checks and manual refreshes

Services == {"gotify", "ntfy"}

\* settings: the notification services with a URL and a token or topic
ServiceConfigs == {{}, {"gotify"}, {"gotify", "ntfy"}}

\* spotify_id of the releases of the catalog
SpotifyIds == 1..MaxReleases

\* releases_data = await spotify.get_artist_releases(...): a release may be
\* listed twice, and for several artists
CatalogAnswers == SeqsUpTo(SpotifyIds, MaxCatalog)

\* the variables of a single call of check_album_in_library
program == <<inputs, pc, music_libraries, lib, artist, albums, exact_matches, dup_i,
             best_album, best_track_diff, dup_counts, matched_album, best_ratio,
             has_best_ratio, lib_tracks, result, requests, served, max_seen, examined>>

\* no single call is in flight
NoCheck ==
    /\ scenario = "short"
    /\ adapter = "plex"
    /\ configured = TRUE
    /\ album_name = <<>>
    /\ artist_name = <<>>
    /\ spotify_tracks = <<>>
    /\ pc = "idle"
    /\ music_libraries = <<>>
    /\ lib = 0
    /\ artist = Nothing
    /\ albums = <<>>
    /\ exact_matches = <<>>
    /\ dup_i = 0
    /\ best_album = Nothing
    /\ best_track_diff = Inf
    /\ dup_counts = <<>>
    /\ matched_album = Nothing
    /\ best_ratio = Zero
    /\ has_best_ratio = FALSE
    /\ lib_tracks = <<>>
    /\ result = Pending
    /\ requests = <<>>
    /\ served = <<>>
    /\ max_seen = Zero
    /\ examined = FALSE

\* Release(...): the columns the handlers read or write; the library columns
\* are NULL until a library check
NewRelease(id, spotify_id, artist_id, is_new) ==
    [id |-> id, spotify_id |-> spotify_id, artist_id |-> artist_id,
     is_new |-> is_new, notified |-> FALSE,
     in_jellyfin |-> Nothing, jellyfin_match_type |-> Nothing,
     jellyfin_match_confidence |-> Nothing, jellyfin_album_id |-> Nothing,
     in_plex |-> Nothing, plex_match_type |-> Nothing,
     plex_match_confidence |-> Nothing, plex_album_id |-> Nothing,
     tracks |-> Nothing, available_tracks |-> Nothing, missing_tracks |-> Nothing,
     plex_available_tracks |-> Nothing, plex_missing_tracks |-> Nothing]

\* the spotify_id of a list of rows
SpotifyIdsOf(rows) == {rows[i].spotify_id : i \in 1..Len(rows)}

\* a session that does not flush: its queries see the committed rows only
VisibleWithoutFlush(stored, inserts) == stored

\* the rows a query of the session sees: the committed rows and the rows the
\* session has added and flushed
Visible(stored, inserts) == stored \o inserts

\* db.query(Release).filter(Release.spotify_id == ...).first() is not None
Existing(rows, spotify_id) == spotify_id \in SpotifyIdsOf(rows)

\* the loop "for release_data in releases_data": existing, "if not existing"
\* db.add, db.flush and new_releases.append
RECURSIVE InsertLoop(_, _, _, _, _, _)
InsertLoop(stored, inserts, new_releases, releases_data, artist_id, is_new) ==
    IF releases_data = <<>> THEN [inserts |-> inserts, new_releases |-> new_releases]
    ELSE LET release_data == Head(releases_data)
             existing == Existing(Visible(stored, inserts), release_data)
             new_release == NewRelease(Len(stored) + Len(inserts) + 1, release_data,
                                       artist_id, is_new)
         IN IF existing
            THEN InsertLoop(stored, inserts, new_releases, Tail(releases_data),
                            artist_id, is_new)
            ELSE InsertLoop(stored, Append(inserts, new_release),
                            Append(new_releases, release_data), Tail(releases_data),
                            artist_id, is_new)

\* a notification of everything the catalog listed
NotifyListed(new_releases, releases_data) == releases_data

\* the list handed to send_release_notification
NotifyList(new_releases, releases_data) == new_releases

\* "for release_data in new_releases: release.notified = True"
MarkNotified(inserts, new_releases) ==
    [i \in 1..Len(inserts) |->
        IF inserts[i].spotify_id \in {new_releases[k] : k \in 1..Len(new_releases)}
        THEN [inserts[i] EXCEPT !.notified = TRUE]
        ELSE inserts[i]]

\* the calls of send_release_notification: one for each configured service
CallsOf(passed) ==
    IF "gotify" \in services
    THEN (IF "ntfy" \in services
          THEN <<[service |-> "gotify", releases |-> passed],
                 [service |-> "ntfy", releases |-> passed]>>
          ELSE <<[service |-> "gotify", releases |-> passed]>>)
    ELSE (IF "ntfy" \in services
          THEN <<[service |-> "ntfy", releases |-> passed]>>
          ELSE <<>>)

\* the number of times r occurs in the list l
RECURSIVE Occurrences(_, _)
Occurrences(l, r) ==
    IF l = <<>> THEN 0
    ELSE (IF Head(l) = r THEN 1 ELSE 0) + Occurrences(Tail(l), r)

\* sent, with the calls of a run that has completed
RECURSIVE Counted(_, _)
Counted(counts, notify_calls) ==
    IF notify_calls = <<>> THEN counts
    ELSE LET c == Head(notify_calls)
         IN Counted([k \in DOMAIN counts |->
                        IF k[1] = c.service
                        THEN counts[k] + Occurrences(c.releases, k[2])
                        ELSE counts[k]],
                    Tail(notify_calls))

\* the session of the daily check: the rows added and flushed, the artists
\* whose last_checked is set, and where the run stands
IdleJob ==
    [pc |-> "idle", artists |-> <<>>, i |-> 0, inserts |-> <<>>, checked |-> {},
     now |-> 0, new_releases |-> <<>>, sent |-> <<>>]

\* db.commit(): the rows of the session and its last_checked are stored
Commit(d, inserts, checked, now) ==
    [artists |-> [a \in 1..Len(d.artists) |->
                     IF d.artists[a].id \in checked
                     THEN [d.artists[a] EXCEPT !.last_checked = Some(now)]
                     ELSE d.artists[a]],
     releases |-> d.releases \o inserts]

\* a rollback that keeps what was flushed
RollbackKeepsFlushed(d, j) == Commit(d, j.inserts, j.checked, j.now)

\* db.rollback(): nothing of the session is stored
Rollback(d, j) == d

\* another session holds the write lock
Locked == job.inserts # <<>>

\* spotify_tracks = await spotify.get_album_tracks(release.spotify_id)
CheckedTracks == <<[name |-> Abc(5)]>>

LibraryServices == {"plex", "jellyfin"}

\* what check_album_in_library of either service may return for a release:
\* not found, or a similar match with its track lists
LibraryStatuses ==
    {NotFoundResult(Zero, CheckedTracks),
     FoundResult(FALSE, Frac(6, 7), [available |-> <<Abc(5)>>, missing |-> <<>>],
                 [ratingKey |-> <<1, 1>>, title |-> Abc(4)])}

\* a Plex status written to the track columns of Jellyfin
WithPlexStatusMisplaced(release, plex_status, tracks) ==
    [release EXCEPT !.in_plex = Some(plex_status.in_library),
                    !.plex_match_type = Some(plex_status.match_type),
                    !.plex_match_confidence = Some(plex_status.match_confidence),
                    !.plex_album_id = plex_status.album_id,
                    !.tracks = Some(tracks),
                    !.available_tracks = Some(plex_status.available_tracks),
                    !.missing_tracks = Some(plex_status.missing_tracks)]

\* "Update release record" of check_plex_library and check_all_plex
WithPlexStatus(release, plex_status, tracks) ==
    [release EXCEPT !.in_plex = Some(plex_status.in_library),
                    !.plex_match_type = Some(plex_status.match_type),
                    !.plex_match_confidence = Some(plex_status.match_confidence),
                    !.plex_album_id = plex_status.album_id,
                    !.tracks = Some(tracks),
                    !.plex_available_tracks = Some(plex_status.available_tracks),
                    !.plex_missing_tracks = Some(plex_status.missing_tracks)]

\* "Update release record" of check_jellyfin_library and check_all_jellyfin
WithJellyfinStatus(release, jellyfin_status, tracks) ==
    [release EXCEPT !.in_jellyfin = Some(jellyfin_status.in_library),
                    !.jellyfin_match_type = Some(jellyfin_status.match_type),
                    !.jellyfin_match_confidence = Some(jellyfin_status.match_confidence),
                    !.jellyfin_album_id = jellyfin_status.album_id,
                    !.tracks = Some(tracks),
                    !.available_tracks = Some(jellyfin_status.available_tracks),
                    !.missing_tracks = Some(jellyfin_status.missing_tracks)]

WithStatus(service, release, status, tracks) ==
    IF service = "plex" THEN WithPlexStatus(release, status, tracks)
    ELSE WithJellyfinStatus(release, status, tracks)

\* the session of a check-all sweep: the releases it loaded, the position of
\* its loop, its counters, and the statuses it has assigned
IdleSweep ==
    [pc |-> "idle", service |-> "", releases |-> <<>>, k |-> 0, checked_count |-> 0,
     in_library_count |-> 0, errors |-> <<>>, updates |-> <<>>]

\* db.commit() of a sweep: the assigned columns of the releases it checked
RECURSIVE Updated(_, _, _)
Updated(rows, service, updates) ==
    IF updates = <<>> THEN rows
    ELSE LET u == Head(updates)
         IN Updated([r \in 1..Len(rows) |->
                        IF rows[r].id = u.id
                        THEN WithStatus(service, rows[r], u.status, CheckedTracks)
                        ELSE rows[r]],
                    service, Tail(updates))

\* an exception that is counted as a check as well
CountedWithError(w, id, outcome) ==
    IF outcome = Nothing
    THEN [w EXCEPT !.errors = Append(@, id), !.checked_count = @ + 1]
    ELSE [w EXCEPT !.updates = Append(@, [id |-> id, status |-> outcome[1]]),
                   !.in_library_count = IF outcome[1].in_library THEN @ + 1 ELSE @,
                   !.checked_count = @ + 1]

\* one iteration of the loop of a sweep: the status is assigned and counted,
\* or the exception is appended to errors
CountedRelease(w, id, outcome) ==
    IF outcome = Nothing
    THEN [w EXCEPT !.errors = Append(@, id)]
    ELSE [w EXCEPT !.updates = Append(@, [id |-> id, status |-> outcome[1]]),
                   !.in_library_count = IF outcome[1].in_library THEN @ + 1 ELSE @,
                   !.checked_count = @ + 1]

\* the dictionary a sweep returns
Summary(w) ==
    [total_releases |-> Len(w.releases),
     checked |-> w.checked_count,
     in_library |-> w.in_library_count,
     not_in_library |-> w.checked_count - w.in_library_count,
     errors |-> w.errors]

DbInit ==
    /\ services \in ServiceConfigs
    /\ \E n \in 0..MaxFollowed :
          db = [artists |-> [a \in 1..n |-> [id |-> a, last_checked |-> Nothing]],
                releases |-> <<>>]
    /\ job = IdleJob
    /\ clock = 0
    /\ exam = Nothing
    /\ sent = [k \in Services \X SpotifyIds |-> 0]
    /\ before = Nothing
    /\ sweep = IdleSweep
    /\ response = Nothing
    /\ servers = <<>>
    /\ str1 = <<>>
    /\ str2 = <<>>
    /\ ratios = Nothing
    /\ NoCalls
    /\ NoCheck

\* check_for_new_releases up to its first await: the session and the artists
CheckForNewReleases ==
    /\ job.pc \in {"idle", "rolled_back"}
    /\ clock < MaxRuns
    /\ clock' = clock + 1
    /\ before' = Some(db)
    /\ exam' = Nothing
    /\ job' = IF db.artists = <<>> THEN IdleJob
              ELSE [IdleJob EXCEPT !.pc = "fetch",
                                   !.artists = [a \in 1..Len(db.artists) |-> db.artists[a].id],
                                   !.i = 1,
                                   !.now = clock + 1]
    /\ UNCHANGED <<services, db, sent, sweep, response, servers, operands, concurrent, program>>

\* the end of the iteration for an artist: the next artist, or after the last
\* db.commit() and the end of the run
NextArtist(j) ==
    IF j.i < Len(j.artists)
    THEN /\ job' = [j EXCEPT !.pc = "fetch", !.i = @ + 1, !.new_releases = <<>>]
         /\ db' = db
         /\ sent' = sent
         /\ before' = before
    ELSE /\ job' = IdleJob
         /\ db' = Commit(db, j.inserts, j.checked, j.now)
         /\ sent' = Counted(sent, j.sent)
         /\ before' = Nothing

\* the answer of the catalog for the artist, the loop over it and
\* artist.last_checked, up to the notification
CheckArtistReleases ==
    /\ job.pc = "fetch"
    /\ \E releases_data \in CatalogAnswers :
          LET artist_id == job.artists[job.i]
              loop == InsertLoop(db.releases, job.inserts, <<>>, releases_data, artist_id, TRUE)
              j == [job EXCEPT !.inserts = loop.inserts,
                               !.checked = @ \cup {artist_id},
                               !.new_releases = loop.new_releases]
          IN /\ exam' = Some([handler |-> "check", artist_id |-> artist_id,
                              releases_data |-> releases_data,
                              stored |-> SpotifyIdsOf(Visible(db.releases, job.inserts)),
                              passed |-> Nothing])
             /\ IF loop.new_releases # <<>>
                THEN /\ job' = [j EXCEPT !.pc = "notify"]
                     /\ db' = db
                     /\ sent' = sent
                     /\ before' = before
                ELSE NextArtist(j)
    /\ UNCHANGED <<services, clock, sweep, response, servers, operands, concurrent, program>>

\* "if new_releases": send_release_notification of the configured services
\* and release.notified = True
SendReleaseNotifications ==
    /\ job.pc = "notify"
    /\ LET passed == NotifyList(job.new_releases, exam[1].releases_data)
           j == [job EXCEPT !.sent = @ \o CallsOf(passed),
                            !.inserts = MarkNotified(@, job.new_releases)]
       IN /\ exam' = Some([exam[1] EXCEPT !.passed = IF services = {} THEN Nothing
                                                     ELSE Some(passed)])
          /\ NextArtist(j)
    /\ UNCHANGED <<services, clock, sweep, response, servers, operands, concurrent, program>>

\* "except Exception: db.rollback()", at any await of the run
CheckRaises ==
    /\ job.pc \in {"fetch", "notify"}
    /\ job' = [IdleJob EXCEPT !.pc = "rolled_back", !.i = job.i, !.sent = job.sent]
    /\ db' = Rollback(db, job)
    /\ exam' = Nothing
    /\ UNCHANGED <<services, clock, sent, before, sweep, response, servers, operands, concurrent,
                   program>>

\* refresh_artist_releases of a followed artist, run to its return
RefreshArtistReleases ==
    /\ ~Locked
    /\ clock < MaxRuns
    /\ \E a \in 1..Len(db.artists), releases_data \in CatalogAnswers :
          LET artist_id == db.artists[a].id
              loop == InsertLoop(db.releases, <<>>, <<>>, releases_data, artist_id, TRUE)
              passed == NotifyList(loop.new_releases, releases_data)
              notify == loop.new_releases # <<>>
              rows == IF notify THEN MarkNotified(loop.inserts, loop.new_releases)
                      ELSE loop.inserts
          IN /\ db' = Commit(db, rows, {artist_id}, clock + 1)
             /\ exam' = Some([handler |-> "refresh", artist_id |-> artist_id,
                              releases_data |-> releases_data,
                              stored |-> SpotifyIdsOf(db.releases),
                              passed |-> IF notify /\ services # {} THEN Some(passed)
                                         ELSE Nothing])
             /\ sent' = IF notify THEN Counted(sent, CallsOf(passed)) ELSE sent
    /\ clock' = clock + 1
    /\ before' = Nothing
    /\ UNCHANGED <<services, job, sweep, response, servers, operands, concurrent, program>>

\* get_artist_all_releases of a followed artist, run to its return
GetArtistAllReleases ==
    /\ ~Locked
    /\ \E a \in 1..Len(db.artists), releases_data \in CatalogAnswers :
          LET loop == InsertLoop(db.releases, <<>>, <<>>, releases_data, db.artists[a].id, FALSE)
          IN db' = Commit(db, loop.inserts, {}, 0)
    /\ before' = Nothing
    /\ exam' = Nothing
    /\ UNCHANGED <<services, job, clock, sent, sweep, response, servers, operands, concurrent,
                   program>>

\* a mark-seen that flips the flag
MarkSeenToggled(release) == [release EXCEPT !.is_new = ~@]

\* release.is_new = False
MarkSeen(release) == [release EXCEPT !.is_new = FALSE]

\* mark_release_as_seen of a stored release
MarkReleaseAsSeen ==
    /\ ~Locked
    /\ \E r \in 1..Len(db.releases) :
          db' = [db EXCEPT !.releases[r] = MarkSeen(@)]
    /\ before' = Nothing
    /\ exam' = Nothing
    /\ UNCHANGED <<services, job, clock, sent, sweep, response, servers, operands, concurrent,
                   program>>

\* mark_all_releases_as_seen
MarkAllReleasesAsSeen ==
    /\ ~Locked
    /\ db' = [db EXCEPT !.releases = [r \in 1..Len(db.releases) |->
                                         IF db.releases[r].is_new
                                         THEN [db.releases[r] EXCEPT !.is_new = FALSE]
                                         ELSE db.releases[r]]]
    /\ before' = Nothing
    /\ exam' = Nothing
    /\ UNCHANGED <<services, job, clock, sent, sweep, response, servers, operands, concurrent,
                   program>>

DbNext ==
    \/ CheckForNewReleases
    \/ CheckArtistReleases
    \/ SendReleaseNotifications
    \/ CheckRaises
    \/ RefreshArtistReleases
    \/ GetArtistAllReleases
    \/ MarkReleaseAsSeen
    \/ MarkAllReleasesAsSeen

DbSpec == DbInit /\ [][DbNext]_vars

\* check_plex_library of a stored release, run to its return
CheckPlexLibrary ==
    /\ ~Locked
    /\ \E r \in 1..Len(db.releases) :
          LET plex_status == servers[<<"plex", db.releases[r].spotify_id>>]
          IN db' = [db EXCEPT !.releases[r] = WithPlexStatus(@, plex_status, CheckedTracks)]
    /\ before' = Nothing
    /\ exam' = Nothing
    /\ response' = Nothing
    /\ UNCHANGED <<services, job, clock, sent, sweep, servers, operands, concurrent, program>>

\* check_jellyfin_library of a stored release, run to its return
CheckJellyfinLibrary ==
    /\ ~Locked
    /\ \E r \in 1..Len(db.releases) :
          LET jellyfin_status == servers[<<"jellyfin", db.releases[r].spotify_id>>]
          IN db' = [db EXCEPT !.releases[r] = WithJellyfinStatus(@, jellyfin_status, CheckedTracks)]
    /\ before' = Nothing
    /\ exam' = Nothing
    /\ response' = Nothing
    /\ UNCHANGED <<services, job, clock, sent, sweep, servers, operands, concurrent, program>>

\* db.commit() and the return of a sweep; the commit of assigned columns
\* raises while another session holds the write lock, and nothing is stored
\* or returned
SweepReturns(w) ==
    IF Locked /\ w.updates # <<>>
    THEN /\ db' = db
         /\ response' = Nothing
         /\ before' = before
    ELSE /\ db' = [db EXCEPT !.releases = Updated(@, w.service, w.updates)]
         /\ response' = Some(Summary(w))
         /\ before' = IF w.updates # <<>> THEN Nothing ELSE before

\* check_all_plex and check_all_jellyfin up to the first await: the releases
\* are loaded; with no release the sweep returns at once
CheckAll(service) ==
    /\ LET w == [IdleSweep EXCEPT !.service = service,
                                  !.releases = [r \in 1..Len(db.releases) |->
                                                   [id |-> db.releases[r].id,
                                                    spotify_id |-> db.releases[r].spotify_id]]]
       IN IF w.releases = <<>>
          THEN /\ sweep' = IdleSweep
               /\ SweepReturns(w)
          ELSE /\ sweep' = [w EXCEPT !.pc = "running", !.k = 1]
               /\ db' = db
               /\ response' = Nothing
               /\ before' = before
    /\ UNCHANGED <<services, job, clock, exam, sent, servers, operands, concurrent, program>>

CheckAllPlex ==
    /\ sweep.pc = "idle"
    /\ CheckAll("plex")

CheckAllJellyfin ==
    /\ sweep.pc = "idle"
    /\ CheckAll("jellyfin")

\* one iteration of the loop of the sweep: the release is checked, or the
\* check raises; after the last release the sweep commits and returns
CheckAllRelease ==
    /\ sweep.pc = "running"
    /\ \E outcome \in {Nothing, Some(servers[<<sweep.service, sweep.releases[sweep.k].spotify_id>>])} :
          LET w == CountedRelease(sweep, sweep.releases[sweep.k].id, outcome)
          IN IF sweep.k < Len(sweep.releases)
             THEN /\ sweep' = [w EXCEPT !.k = @ + 1]
                  /\ db' = db
                  /\ response' = response
                  /\ before' = before
             ELSE /\ sweep' = IdleSweep
                  /\ SweepReturns(w)
    /\ UNCHANGED <<services, job, clock, exam, sent, servers, operands, concurrent, program>>

LibNext ==
    \/ CheckPlexLibrary
    \/ CheckJellyfinLibrary
    \/ CheckAllPlex
    \/ CheckAllJellyfin
    \/ CheckAllRelease

\* a stored release as a daily check, a refresh or an artist-page sync left
\* it, seen or not
StoredRelease(id, is_new, notified) ==
    [NewRelease(id, id, 1, is_new) EXCEPT !.notified = notified]

\* stored releases of one followed artist, and media servers that answer
LibInit ==
    /\ services = {}
    /\ \E n \in 0..MaxReleases, is_new \in [SpotifyIds -> BOOLEAN], notified \in BOOLEAN :
          db = [artists |-> <<[id |-> 1, last_checked |-> Some(1)]>>,
                releases |-> [r \in 1..n |-> StoredRelease(r, is_new[r], notified)]]
    /\ job = IdleJob
    /\ clock = 1
    /\ exam = Nothing
    /\ sent = [k \in Services \X SpotifyIds |-> 0]
    /\ before = Nothing
    /\ sweep = IdleSweep
    /\ response = Nothing
    /\ servers \in [LibraryServices \X SpotifyIds -> LibraryStatuses]
    /\ str1 = <<>>
    /\ str2 = <<>>
    /\ ratios = Nothing
    /\ NoCalls
    /\ NoCheck

LibSpec == LibInit /\ [][LibNext]_vars

\* one followed artist, one notification service, and media servers of which
\* each holds one of the two releases
AppInit ==
    /\ services = {"gotify"}
    /\ db = [artists |-> <<[id |-> 1, last_checked |-> Nothing]>>, releases |-> <<>>]
    /\ job = IdleJob
    /\ clock = 0
    /\ exam = Nothing
    /\ sent = [k \in Services \X SpotifyIds |-> 0]
    /\ before = Nothing
    /\ sweep = IdleSweep
    /\ response = Nothing
    /\ servers = [k \in LibraryServices \X SpotifyIds |->
                     CHOOSE status \in LibraryStatuses :
                        status.in_library <=> (k[1] = "plex" <=> k[2] = 1)]
    /\ str1 = <<>>
    /\ str2 = <<>>
    /\ ratios = Nothing
    /\ NoCalls
    /\ NoCheck

AppNext ==
    \/ DbNext
    \/ LibNext

AppSpec == AppInit /\ [][AppNext]_vars

(***************************************************************************)
(* Properties                                                              *)
(***************************************************************************)
Done == pc = "done"

NameSet(s) == {s[i] : i \in 1..Len(s)}

\* the names of the canonical tracks
CanonicalNames == {spotify_tracks[i].name : i \in 1..Len(spotify_tracks)}

\* the positions, in the candidate albums, of the albums titled as the target
ExactPositions == {i \in 1..Len(albums) : Lower(albums[i].title) = Lower(album_name)}

Distance(m, n) == IF m >= n THEN m - n ELSE n - m

\* C1: when check_album_in_library has returned, available_tracks and
\* missing_tracks have no name in common, together they hold exactly the
\* names of the canonical tracks, and every canonical track is on one side.
C1_Partition ==
    Done =>
        /\ NameSet(result.available_tracks) \cap NameSet(result.missing_tracks) = {}
        /\ NameSet(result.available_tracks) \cup NameSet(result.missing_tracks) = CanonicalNames
        /\ Len(result.available_tracks) + Len(result.missing_tracks) = Len(spotify_tracks)

\* a matched album with tracks on both sides
C1_Witness ==
    /\ Done
    /\ result.in_library
    /\ result.available_tracks # <<>>
    /\ result.missing_tracks # <<>>

\* C2: when exactly one candidate album has the target title (ignoring
\* case), that album is the matched one and the result is 'exact' with
\* confidence 1.0, whatever the other candidates are.
C2_SingleExact ==
    (pc \in {"tracks", "done"} /\ Cardinality(ExactPositions) = 1) =>
        LET i == CHOOSE j \in ExactPositions : TRUE
        IN /\ matched_album = Some(albums[i])
           /\ Done => /\ result.in_library
                      /\ result.match_type = "exact"
                      /\ result.match_confidence = One
                      /\ result.album_id = Some(albums[i].ratingKey)

\* the exact title comes second, after a candidate of ratio 6/7
C2_Witness ==
    /\ Done
    /\ Len(albums) = 2
    /\ ExactPositions = {2}
    /\ albums[1].title = Abc(4)
    /\ result.match_type = "exact"

\* C3 (as claimed): without an exact title, the best candidate is a 'similar'
\* match exactly when its ratio is at least 0.85, with that ratio as the
\* confidence, and otherwise there is no match; in both adapters.
C3_Threshold085 ==
    (Done /\ albums # <<>> /\ ExactPositions = {}) =>
        IF GE(MaxRatio(albums, album_name), <<17, 20>>)
        THEN /\ result.match_type = "similar"
             /\ result.match_confidence = MaxRatio(albums, album_name)
        ELSE result.match_type = "none"

\* the fetched track count of the exact-title album at position i of albums
FetchedCount(i) == dup_counts[Cardinality({j \in ExactPositions : j <= i})]

\* the exact-title album closest in track count, the first of the closest
ClosestFirst ==
    CHOOSE i \in ExactPositions : \A j \in ExactPositions :
        \/ Distance(FetchedCount(i), Len(spotify_tracks)) < Distance(FetchedCount(j), Len(spotify_tracks))
        \/ /\ Distance(FetchedCount(i), Len(spotify_tracks)) = Distance(FetchedCount(j), Len(spotify_tracks))
           /\ i <= j

\* C4: Plex, several candidates with the target title: the matched album is
\* the one whose fetched track count is closest to the number of canonical
\* tracks, the first in provider order among the closest.
C4_ClosestCount ==
    (adapter = "plex" /\ pc \in {"recount", "tracks", "done"} /\ Cardinality(ExactPositions) > 1) =>
        /\ matched_album = Some(albums[ClosestFirst])
        /\ Done => result.album_id = Some(albums[ClosestFirst].ratingKey)

\* two albums of different track counts at the same distance: the first wins
C4_Witness ==
    /\ adapter = "plex"
    /\ Done
    /\ Len(exact_matches) = 2
    /\ dup_counts[1] # dup_counts[2]
    /\ Distance(dup_counts[1], Len(spotify_tracks)) = Distance(dup_counts[2], Len(spotify_tracks))
    /\ result.album_id = Some(exact_matches[1].ratingKey)

\* two albums of the target title, of 10 and 12 fetched tracks
TenAndTwelve ==
    /\ adapter = "plex"
    /\ Done
    /\ Len(exact_matches) = 2
    /\ {dup_counts[1], dup_counts[2]} = {10, 12}

\* the fetched track count of the matched album
MatchedCount == dup_counts[CHOOSE k \in 1..2 : exact_matches[k] = matched_album[1]]

\* C5 (as claimed): albums of 10 and 12 tracks in either order: a release of
\* 11 tracks matches the album of 12, a release of 10 tracks the album of 10.
C5_TwelveForEleven ==
    TenAndTwelve =>
        /\ Len(spotify_tracks) = 11 => MatchedCount = 12
        /\ Len(spotify_tracks) = 10 => MatchedCount = 10

\* C5 (amended): albums of 10 and 12 tracks: for a release of 11 tracks both
\* are at distance 1 and the first in input order is matched; a release of 10
\* tracks matches the album of 10 in either order.
C5_FirstForEleven ==
    TenAndTwelve =>
        /\ Len(spotify_tracks) = 11 => matched_album = Some(exact_matches[1])
        /\ Len(spotify_tracks) = 10 => MatchedCount = 10

\* 11 canonical tracks, the album of 10 listed first and matched
C5_Witness ==
    /\ TenAndTwelve
    /\ Len(spotify_tracks) = 11
    /\ dup_counts = <<10, 12>>
    /\ matched_album = Some(exact_matches[1])

\* some fetched library track has the name (ignoring case) or is similar to it
InLibrary(name) ==
    \E j \in 1..Len(lib_tracks) :
        \/ Lower(lib_tracks[j]) = Lower(name)
        \/ GE(SimilarityRatio(name, lib_tracks[j]), <<9, 10>>)

\* C6: a canonical track is available if and only if some library track of
\* the matched album has its name ignoring case or a similarity of at least
\* 0.90 to it, and missing otherwise, in whatever order the library tracks
\* are scanned.
C6_Classification ==
    (Done /\ result.in_library) =>
        \A n \in CanonicalNames :
            /\ n \in NameSet(result.available_tracks) <=> InLibrary(n)
            /\ n \in NameSet(result.missing_tracks) <=> ~InLibrary(n)

\* a track found by similarity to the second of two library tracks only
C6_Witness ==
    /\ Done
    /\ result.in_library
    /\ Len(lib_tracks) = 2
    /\ \E n \in NameSet(result.available_tracks) :
          /\ \A j \in 1..2 : Lower(lib_tracks[j]) # Lower(n)
          /\ ~GE(SimilarityRatio(n, lib_tracks[1]), <<9, 10>>)
          /\ GE(SimilarityRatio(n, lib_tracks[2]), <<9, 10>>)

\* the position of a library key in the provider's answer
Position(key) == CHOOSE p \in 1..Len(music_libraries) : music_libraries[p] = key

\* the requests made to a library
LibraryRequests == SelectSeq(requests, LAMBDA r : r.op # "libraries")

\* C7: Plex: the libraries are asked one after the other in the order of the
\* provider's answer; tracks are asked only of the library that yields the
\* match; the result comes from that library's matched album alone and no
\* later library is asked anything.
C7_FirstLibraryWins ==
    adapter = "plex" =>
        /\ \A i \in 1..Len(LibraryRequests) :
              /\ Position(LibraryRequests[i].lib) <= lib
              /\ \A j \in 1..i : Position(LibraryRequests[j].lib) <= Position(LibraryRequests[i].lib)
              /\ LibraryRequests[i].op = "tracks" =>
                    /\ LibraryRequests[i].lib = music_libraries[lib]
                    /\ pc \in {"dup", "recount", "tracks", "done"}
        /\ (Done /\ result.in_library) =>
              /\ result.album_id = Some(matched_album[1].ratingKey)
              /\ matched_album[1].ratingKey[1] = music_libraries[lib]
              /\ \/ lib_tracks = <<>>
                 \/ lib_tracks = served[matched_album[1].ratingKey]
              /\ \A n \in NameSet(result.available_tracks) : InLibrary(n)
              /\ \A i \in 1..Len(LibraryRequests) :
                    Position(LibraryRequests[i].lib) <= Position(matched_album[1].ratingKey[1])

\* a match in the first of two libraries
C7_Witness ==
    /\ adapter = "plex"
    /\ Done
    /\ result.in_library
    /\ Len(music_libraries) = 2
    /\ lib = 1

\* C8 (as claimed): Plex: a request that raises for a library makes that
\* library yield no match: no result with in_library = true comes from a
\* library one of whose requests raised, and a not-found result is returned
\* only after every library has been asked.
C8_ErrorMeansNoMatch ==
    (adapter = "plex" /\ Done) =>
        /\ result.in_library =>
              \A i \in 1..Len(LibraryRequests) :
                  LibraryRequests[i].lib = matched_album[1].ratingKey[1] => LibraryRequests[i].ok
        /\ (result.match_type = "none" /\ music_libraries # <<>>) =>
              \A p \in 1..Len(music_libraries) :
                  \E i \in 1..Len(LibraryRequests) :
                      /\ LibraryRequests[i].op = "artist"
                      /\ LibraryRequests[i].lib = music_libraries[p]

\* C9 (as claimed): the confidence of a not-found result is the greatest
\* album-title ratio among the candidate albums examined in any library.
C9_NearestMiss ==
    (Done /\ result.match_type = "none") => result.match_confidence = max_seen

\* C10: a result of match_type 'none' has in_library = false, no available
\* track and every canonical track name, in order, as missing.
C10_NotFoundShape ==
    (Done /\ result.match_type = "none") =>
        /\ ~result.in_library
        /\ result.available_tracks = <<>>
        /\ result.missing_tracks = [i \in 1..Len(spotify_tracks) |-> spotify_tracks[i].name]

\* no album of the artist reaches the threshold, for a release with tracks
C10_Witness ==
    /\ Done
    /\ result.match_type = "none"
    /\ albums # <<>>
    /\ spotify_tracks # <<>>

\* C11: a result of match_type 'exact' has match_confidence 1.0, also when
\* the matched album was chosen among several albums of the target title by
\* their track counts.
C11_ExactIsCertain ==
    (Done /\ result.match_type = "exact") => result.match_confidence = One

\* Plex: two albums of the target title, the second one closer and matched
C11_Witness ==
    /\ adapter = "plex"
    /\ Done
    /\ result.match_type = "exact"
    /\ Len(exact_matches) = 2
    /\ result.album_id = Some(exact_matches[2].ratingKey)

\* C12: when the provider reports no music library, or no library holds the
\* artist, or the artist found has no album (no library has answered with
\* albums of the artist), the call returns the not-found result: in_library
\* false, match_type 'none', match_confidence 0.0, no available track and
\* every canonical track name as missing.
C12_NothingToExamine ==
    (Done /\ ~examined) =>
        result = [in_library |-> FALSE,
                  match_type |-> "none",
                  match_confidence |-> Zero,
                  available_tracks |-> <<>>,
                  missing_tracks |-> [i \in 1..Len(spotify_tracks) |-> spotify_tracks[i].name],
                  album_id |-> Nothing]

\* Plex: two libraries, one without the artist, one whose artist has no album
C12_Witness ==
    /\ adapter = "plex"
    /\ Done
    /\ ~examined
    /\ Len(music_libraries) = 2
    /\ \E i \in 1..Len(requests) : requests[i].op = "albums" /\ requests[i].ok
    /\ Cardinality({i \in 1..Len(requests) : requests[i].op = "artist"}) = 2
    /\ Cardinality({i \in 1..Len(requests) : requests[i].op = "albums"}) = 1
    /\ spotify_tracks # <<>>

\* C13: for a release without canonical tracks the call returns
\* available_tracks = [] and missing_tracks = [], whether an album is matched
\* (exact or similar) or not.
C13_NoCanonicalTracks ==
    (Done /\ spotify_tracks = <<>>) =>
        /\ result.available_tracks = <<>>
        /\ result.missing_tracks = <<>>

\* an album matched by similarity that has tracks in the library
C13_Witness ==
    /\ Done
    /\ spotify_tracks = <<>>
    /\ result.match_type = "similar"
    /\ lib_tracks # <<>>

\* the fields of a result and the values they may hold
ValidResult ==
    /\ {"in_library", "match_type", "match_confidence", "available_tracks",
        "missing_tracks", "album_id"} \subseteq DOMAIN result
    /\ result.in_library \in BOOLEAN
    /\ result.match_type \in {"exact", "similar", "none"}
    /\ GE(result.match_confidence, Zero) /\ GE(One, result.match_confidence)
    /\ \A n \in NameSet(result.available_tracks) \cup NameSet(result.missing_tracks) :
          n \in CanonicalNames
    /\ result.album_id = Nothing \/ Len(result.album_id) = 1

\* C14: every call of check_album_in_library returns, and what it returns is
\* a result with all its fields, whichever requests fail or time out.
C14_AlwaysReturns == <>(Done /\ ValidResult)

\* Plex: two libraries, the request to each of them fails
C14_Witness ==
    /\ adapter = "plex"
    /\ Done
    /\ ValidResult
    /\ Len(music_libraries) = 2
    /\ Len(requests) = 3
    /\ \A i \in 2..3 : ~requests[i].ok

\* the request a step has made last
LastRequest == requests'[Len(requests')]

\* a step one of whose requests has raised
RequestFailed == requests' # requests /\ ~LastRequest.ok

\* C15 (as claimed): a request that raises (timeout, connection error, status
\* other than 2xx) in list-libraries, find-artist, list-albums or list-tracks
\* hands the engine an outcome that differs from the outcome of a request
\* answered with nothing (no library, no artist, no album, no track).
C15_ErrorsDistinguishable ==
    [][RequestFailed =>
          /\ (adapter = "plex" /\ LastRequest.op = "libraries") =>
                music_libraries' # GetMusicLibraries(TRUE, TRUE, <<>>)
          /\ (adapter = "plex" /\ LastRequest.op = "artist") =>
                artist' # SearchArtistInLibrary(TRUE, TRUE, <<>>, artist_name)
          /\ (adapter = "plex" /\ LastRequest.op = "albums") =>
                albums' # GetArtistAlbums(TRUE, TRUE, <<>>, artist_name)
          /\ (adapter = "jellyfin" /\ pc = "start") =>
                albums' # GetArtistItems(TRUE, "ok", <<>>, <<>>)
          /\ (LastRequest.op = "tracks" /\ pc' = "done") =>
                lib_tracks' # GetAlbumTracks(TRUE, "ok", <<>>)]_vars

\* what every provider operation returns, and the requests it makes, for
\* every answer the server could give
OperationsReturnNothing ==
    /\ \A sections \in SectionLists : GetMusicLibraries(configured, TRUE, sections) = <<>>
    /\ \A artists \in ArtistLists :
          /\ SearchArtistInLibrary(configured, TRUE, artists, artist_name) = Nothing
          /\ ItemsRequests(configured, "ok", artists) = <<>>
          /\ \A l \in JellyfinAlbumLists(artist_name) :
                GetArtistItems(configured, "ok", artists, l) = <<>>
    /\ \A l \in AlbumLists(1) : GetArtistAlbums(configured, TRUE, l, artist_name) = <<>>
    /\ \A t \in TrackLists(scenario) : GetAlbumTracks(configured, "ok", t) = <<>>
    /\ TracksRequests(configured, "ok") = <<>>
    /\ Requested("libraries", 0, TRUE) = requests

\* C16: when the provider is unconfigured, every provider operation returns
\* an empty or absent result, no request is made, and the call returns the
\* not-found result with confidence 0.0.
C16_Unconfigured ==
    ~configured =>
        /\ requests = <<>>
        /\ music_libraries = <<>>
        /\ artist = Nothing
        /\ albums = <<>>
        /\ lib_tracks = <<>>
        /\ pc \in {"start", "done"}
        /\ pc = "start" => OperationsReturnNothing
        /\ Done => result = [in_library |-> FALSE,
                             match_type |-> "none",
                             match_confidence |-> Zero,
                             available_tracks |-> <<>>,
                             missing_tracks |-> [i \in 1..Len(spotify_tracks) |-> spotify_tracks[i].name],
                             album_id |-> Nothing]

\* the call of an unconfigured Plex adapter has returned
C16_Witness ==
    /\ ~configured
    /\ adapter = "plex"
    /\ Done
    /\ spotify_tracks # <<>>

\* the name equals the requested artist name ignoring case, or is similar to it
ArtistQualifies(name) ==
    \/ Lower(name) = Lower(artist_name)
    \/ GE(SimilarityRatio(name, artist_name), <<17, 20>>)

\* C17 (as claimed): in both adapters the candidate albums, and the matched
\* album, belong to an artist whose name equals the requested name ignoring
\* case or has a similarity of at least 0.85 to it; otherwise no album is
\* taken and none is matched.
C17_ArtistMatched ==
    /\ \A i \in 1..Len(albums) : ArtistQualifies(albums[i].parentTitle)
    /\ matched_album # Nothing => ArtistQualifies(matched_album[1].parentTitle)
    /\ (Done /\ result.in_library) => ArtistQualifies(matched_album[1].parentTitle)

\* the number of tracks the server holds for the album at position i
HeldCount(i) == Len(served[albums[i].ratingKey])

\* C18 (as claimed): Jellyfin, several albums of the artist with the target
\* title: the matched album is one whose track count is closest to the number
\* of canonical tracks.
C18_JellyfinClosestCount ==
    (adapter = "jellyfin" /\ Done /\ Cardinality(ExactPositions) > 1) =>
        \E i \in ExactPositions :
            /\ result.album_id = Some(albums[i].ratingKey)
            /\ \A j \in ExactPositions :
                  Distance(HeldCount(i), Len(spotify_tracks)) <=
                      Distance(HeldCount(j), Len(spotify_tracks))

\* no element occurs twice in the sequence
NoRepeat(s) == \A i, j \in 1..Len(s) : s[i] = s[j] => i = j

\* C19 (as claimed): canonical tracks of the same name collapse into one
\* entry: no name occurs twice in available_tracks or in missing_tracks.
C19_NamesCollapse ==
    Done =>
        /\ NoRepeat(result.available_tracks)
        /\ NoRepeat(result.missing_tracks)

\* C20 (as claimed): _similarity_ratio(a, b) = _similarity_ratio(b, a) for
\* all strings a and b.
C20_Symmetric ==
    ratios # Nothing => ratios[1][1] = ratios[1][2]

\* one ASCII letter in the other case
SwapChar(c) ==
    IF c >= 65 /\ c <= 90 THEN c + 32
    ELSE IF c >= 97 /\ c <= 122 THEN c - 32
    ELSE c

\* the strings obtained from s by changing the case of some of its characters
CaseChanges(s) ==
    {[i \in 1..Len(s) |-> IF i \in K THEN SwapChar(s[i]) ELSE s[i]] : K \in SUBSET (1..Len(s))}

\* C21: _similarity_ratio(str1, str2) lies in [0.0, 1.0], is unchanged by
\* changing the case of characters of either argument, and is exactly 1.0
\* when the two strings are equal ignoring case, two empty strings included.
C21_CaseInsensitive ==
    ratios # Nothing =>
        LET r == ratios[1][1]
        IN /\ GE(r, Zero)
           /\ GE(One, r)
           /\ \A s \in CaseChanges(str1) : SimilarityRatio(s, str2) = r
           /\ \A t \in CaseChanges(str2) : SimilarityRatio(str1, t) = r
           /\ Lower(str1) = Lower(str2) => r = One
           /\ (str1 = <<>> /\ str2 = <<>>) => r = One

\* the ratio of two strings of full length that differ only by case was computed
C21_Witness ==
    /\ ratios # Nothing
    /\ Len(str1) = MaxStrLen
    /\ str1 # str2
    /\ Lower(str1) = Lower(str2)
    /\ ratios[1][1] = One

\* the first position, in provider order, of an album whose title has the
\* greatest similarity ratio to the target
FirstBest ==
    CHOOSE i \in 1..Len(albums) :
        /\ SimilarityRatio(albums[i].title, album_name) = MaxRatio(albums, album_name)
        /\ \A j \in 1..(i - 1) :
              SimilarityRatio(albums[j].title, album_name) # MaxRatio(albums, album_name)

\* C23: when no candidate has the target title, the album considered for a
\* similar match (best_match) has the greatest ratio of all candidates and is
\* the first in provider order of those with that ratio; when every ratio is
\* 0.0 no album is considered; a similar match is that album.
C23_FirstBestCandidate ==
    (albums # <<>> /\ ExactPositions = {}) =>
        LET best == BestAlbum(albums, album_name)
        IN /\ best.ratio = MaxRatio(albums, album_name)
           /\ best.match # Nothing => best.match[1] = albums[FirstBest]
           /\ best.ratio = Zero <=> best.match = Nothing
           /\ matched_album # Nothing => matched_album = best.match
           /\ (Done /\ result.match_type = "similar") =>
                 result.album_id = Some(albums[FirstBest].ratingKey)

\* two candidates share the greatest ratio and the first is the similar match
C23_Witness ==
    /\ Done
    /\ ExactPositions = {}
    /\ Len(albums) = 2
    /\ SimilarityRatio(albums[1].title, album_name) = SimilarityRatio(albums[2].title, album_name)
    /\ result.match_type = "similar"
    /\ result.album_id = Some(albums[1].ratingKey)

\* C24: in every result of check_album_in_library, in_library is true exactly
\* when match_type is "exact" or "similar"; the album id is the id of the
\* matched album in that case and None otherwise; match_confidence lies in
\* [0.0, 1.0].
C24_ResultConsistent ==
    Done =>
        /\ result.in_library <=> result.match_type \in {"exact", "similar"}
        /\ result.in_library =>
              /\ matched_album # Nothing
              /\ result.album_id = Some(matched_album[1].ratingKey)
        /\ ~result.in_library =>
              /\ result.match_type = "none"
              /\ result.album_id = Nothing
        /\ GE(result.match_confidence, Zero)
        /\ GE(One, result.match_confidence)

\* a similar match below full confidence was returned with the album's id
C24_Witness ==
    /\ Done
    /\ result.match_type = "similar"
    /\ result.in_library
    /\ result.album_id = Some(matched_album[1].ratingKey)
    /\ GT(One, result.match_confidence)

\* C22: concurrent calls of check_album_in_library for different releases:
\* under every interleaving of their requests, each call returns what it
\* returns when it runs alone against the same provider data.
C22_NoInterference ==
    \A c \in DOMAIN calls :
        /\ calls[c].pc # "raised"
        /\ calls[c].pc = "done" => calls[c].result = RunAlone(world, Release(c))

\* the first call has returned an exact match while the second call, which
\* has matched another album by similarity, still waits for its tracks
C22_Witness ==
    /\ calls # <<>>
    /\ calls[1].pc = "done"
    /\ calls[1].result.match_type = "exact"
    /\ calls[2].pc = "tracks"
    /\ frames[2].exact_matches = <<>>
    /\ frames[2].matched_album # Nothing
    /\ calls[1].result.album_id # Some(frames[2].matched_album[1].ratingKey)

\* the rows a list of rows holds for a spotify_id
RowsOf(rows, spotify_id) == {i \in 1..Len(rows) : rows[i].spotify_id = spotify_id}

\* C25: after any sequence of daily checks, manual refreshes and artist-page
\* syncs no two releases, stored or flushed by the running check, have the
\* same spotify_id or the same id: a release of the catalog is inserted only
\* if no release has its spotify_id, also when the catalog lists it twice in
\* one run or for two followed artists.
C25_UniqueSpotifyId ==
    LET rows == db.releases \o job.inserts
    IN \A i, j \in 1..Len(rows) :
          (rows[i].spotify_id = rows[j].spotify_id \/ rows[i].id = rows[j].id) => i = j

\* a refresh has examined an answer that lists a release not yet stored
\* twice while the other artist already holds the other release: the release
\* is stored once
C25_Witness ==
    /\ exam # Nothing
    /\ exam[1].handler = "refresh"
    /\ exam[1].artist_id = 2
    /\ exam[1].releases_data = <<1, 1>>
    /\ exam[1].stored = {2}
    /\ Cardinality(RowsOf(db.releases, 1)) = 1
    /\ \E r \in RowsOf(db.releases, 2) : db.releases[r].artist_id = 1

\* the releases of a catalog answer that are not stored when they are
\* examined, in the order of the answer: a release is stored once examined
RECURSIVE Fresh(_, _)
Fresh(releases_data, stored) ==
    IF releases_data = <<>> THEN <<>>
    ELSE IF Head(releases_data) \in stored THEN Fresh(Tail(releases_data), stored)
    ELSE <<Head(releases_data)>> \o
             Fresh(Tail(releases_data), stored \cup {Head(releases_data)})

\* the notification of the examined answer is still to come
NotificationPending == exam[1].handler = "check" /\ job.pc = "notify"

\* C26: daily check and manual refresh: the releases passed to the
\* notification services for an artist are exactly the releases of the
\* catalog answer that were not stored when examined in that run, none of
\* them stored before; over the runs that complete without error a release
\* goes to a service at most once.
C26_NotifiedOnce ==
    /\ exam # Nothing =>
          LET fresh == Fresh(exam[1].releases_data, exam[1].stored)
          IN /\ exam[1].passed # Nothing =>
                   /\ exam[1].passed[1] = fresh
                   /\ \A k \in 1..Len(exam[1].passed[1]) :
                         exam[1].passed[1][k] \notin exam[1].stored
             /\ (services # {} /\ fresh # <<>> /\ ~NotificationPending) =>
                   exam[1].passed = Some(fresh)
    /\ \A k \in DOMAIN sent : sent[k] <= 1

\* in a second run the catalog lists a release that an earlier completed run
\* has passed to gotify, and a new one: only the new one is passed
C26_Witness ==
    /\ exam # Nothing
    /\ clock = 2
    /\ exam[1].passed # Nothing
    /\ \E s \in exam[1].stored :
          /\ sent[<<"gotify", s>>] = 1
          /\ \E k \in 1..Len(exam[1].releases_data) : exam[1].releases_data[k] = s
          /\ \A k \in 1..Len(exam[1].passed[1]) : exam[1].passed[1][k] # s

\* C27: check_for_new_releases raises part-way, for whichever artist: with no
\* other handler committing meanwhile the stored rows are those of before the
\* run: no release of the run, no notified flag, no last_checked remains, and
\* the session holds nothing.
C27_RolledBack ==
    (job.pc = "rolled_back" /\ before # Nothing) =>
        /\ db = before[1]
        /\ job.inserts = <<>>
        /\ job.checked = {}

\* the run raised at the second artist after it had inserted and notified
\* releases of the first: nothing is stored
C27_Witness ==
    /\ job.pc = "rolled_back"
    /\ before # Nothing
    /\ job.i = 2
    /\ job.sent # <<>>
    /\ db = before[1]
    /\ db.releases = <<>>
    /\ \A a \in 1..Len(db.artists) : db.artists[a].last_checked = Nothing

\* the columns of a release that hold its Jellyfin status
JellyfinFields(release) ==
    <<release.in_jellyfin, release.jellyfin_match_type, release.jellyfin_match_confidence,
      release.jellyfin_album_id, release.available_tracks, release.missing_tracks>>

\* the columns of a release that hold its Plex status
PlexFields(release) ==
    <<release.in_plex, release.plex_match_type, release.plex_match_confidence,
      release.plex_album_id, release.plex_available_tracks, release.plex_missing_tracks>>

Flags(release) == <<release.is_new, release.notified>>

\* a step of check_plex_library or of check_all_plex
PlexCheck ==
    \/ CheckPlexLibrary
    \/ CheckAllPlex
    \/ (sweep.service = "plex" /\ CheckAllRelease)

\* a step of check_jellyfin_library or of check_all_jellyfin
JellyfinCheck ==
    \/ CheckJellyfinLibrary
    \/ CheckAllJellyfin
    \/ (sweep.service = "jellyfin" /\ CheckAllRelease)

SameRows == Len(db'.releases) = Len(db.releases)

\* C28: a Plex check, of one release or of all, leaves the Jellyfin columns of
\* every stored release as they were, a Jellyfin check leaves the Plex columns
\* as they were, and neither changes is_new or notified.
C28_OtherServiceUntouched ==
    [][/\ PlexCheck =>
            /\ SameRows
            /\ \A r \in 1..Len(db.releases) :
                  /\ JellyfinFields(db'.releases[r]) = JellyfinFields(db.releases[r])
                  /\ Flags(db'.releases[r]) = Flags(db.releases[r])
       /\ JellyfinCheck =>
            /\ SameRows
            /\ \A r \in 1..Len(db.releases) :
                  /\ PlexFields(db'.releases[r]) = PlexFields(db.releases[r])
                  /\ Flags(db'.releases[r]) = Flags(db.releases[r])]_vars

\* a sweep has returned, and a release that is new and not notified
\* holds a found Plex status next to a not-found Jellyfin status
C28_Witness ==
    /\ response # Nothing
    /\ sweep.pc = "idle"
    /\ \E r \in 1..Len(db.releases) :
          /\ db.releases[r].is_new
          /\ ~db.releases[r].notified
          /\ db.releases[r].in_plex = Some(TRUE)
          /\ db.releases[r].plex_available_tracks = Some(<<Abc(5)>>)
          /\ db.releases[r].in_jellyfin = Some(FALSE)
          /\ db.releases[r].available_tracks = Some(<<>>)
          /\ db.releases[r].missing_tracks = Some(<<Abc(5)>>)

\* C29: in a sweep every release before the current one was either checked or
\* recorded in errors, and the sweep goes on to the last release; in what the
\* sweep returns, checked plus the number of errors is total_releases,
\* in_library plus not_in_library is checked, and neither count is negative.
C29_SweepCounts ==
    /\ sweep.pc = "running" =>
          /\ sweep.k \in 1..Len(sweep.releases)
          /\ sweep.checked_count + Len(sweep.errors) = sweep.k - 1
    /\ response # Nothing =>
          LET summary == response[1]
          IN /\ summary.checked + Len(summary.errors) = summary.total_releases
             /\ summary.in_library + summary.not_in_library = summary.checked
             /\ summary.in_library >= 0
             /\ summary.not_in_library >= 0

\* a sweep of two releases has returned: the check of the first raised, and
\* the second was checked and found
C29_Witness ==
    /\ response # Nothing
    /\ response[1].total_releases = 2
    /\ response[1].errors = <<db.releases[1].id>>
    /\ response[1].checked = 1
    /\ response[1].in_library = 1
    /\ response[1].not_in_library = 0

\* C30: is_new of a stored release changes from true to false only: no step of
\* a daily check, refresh, artist-page sync, mark-seen or library check leaves
\* is_new true on a row where it was false, and when mark-all-seen has
\* committed no stored release has is_new true.
C30_IsNewOnlyFalls ==
    [][/\ \A r \in 1..Len(db.releases), q \in 1..Len(db'.releases) :
             db'.releases[q].id = db.releases[r].id =>
                (db'.releases[q].is_new => db.releases[r].is_new)
       /\ MarkAllReleasesAsSeen =>
             \A q \in 1..Len(db'.releases) : ~db'.releases[q].is_new]_vars

\* after a second daily check and library checks of both services, a release
\* that was notified is seen while a later release is new
C30_Witness ==
    /\ clock = 2
    /\ job.pc = "idle"
    /\ Len(db.releases) = 2
    /\ db.artists[1].last_checked = Some(2)
    /\ ~db.releases[1].is_new
    /\ db.releases[1].notified
    /\ db.releases[1].in_plex # Nothing
    /\ db.releases[1].in_jellyfin # Nothing
    /\ db.releases[2].is_new

====
